---------------------------- MODULE Spec2Model ----------------------------
(***************************************************************************)
(* A model of euro500_dashboard_app.py: the quarterly constituents panel   *)
(* (load, quarter labelling, company key resolution) and the metrics that  *)
(* are computed over it (distribution counts, joiners / leavers, leaver    *)
(* tenure, Top-N concentration, HHI).                                      *)
(*                                                                         *)
(* Representation.                                                         *)
(*  - A text cell is a sequence of one-character strings; " " is the white *)
(*    space that str.strip() removes.  A missing cell (None / NaN) is NA.  *)
(*  - A numeric cell is a natural number, or NaN.                          *)
(*  - A date is [y, m] (year, month); NaT is the missing date.  A raw date *)
(*    cell is [kind, y, m] with kind "date" (parseable), "text" (an        *)
(*    unparseable string) or "null".                                       *)
(*  - A quotient of two floats is kept exact, as [num, den].               *)
(***************************************************************************)
EXTENDS Integers, Sequences, FiniteSets, TLC

VARIABLES
    raw,            \* the table read from DATA_FILE
    DF,             \* the module-level panel DF: its rows
    DF_columns,     \* DF.columns
    pc,             \* "boot" before DF is loaded, then "ready" or the running loop
    sel_year,       \* input.year()
    sel_quarter,    \* input.quarter()
    dist_col,       \* the column of the distribution dialog opened for the
                    \* current selection ("" when none has been)
    dist,           \* its dist
    n_companies,    \* its n_companies
    index_mcap,     \* vb_rows: total, for the current selection
    kpi_firms,      \* vb_firms: n, for the current selection
    keyed,          \* the last result of _with_company_key
    jl_idx,         \* plot_joiner_leaver_time: number of labels processed
    jl_prev_set,    \* plot_joiner_leaver_time: prev_set
    jl_records,     \* plot_joiner_leaver_time: records
    lt_idx,         \* plot_leaver_tenure_time: number of labels processed
    lt_prev_set,    \* plot_leaver_tenure_time: prev_set
    lt_prev_streak, \* plot_leaver_tenure_time: prev_streak
    lt_tenures,     \* plot_leaver_tenure_time: tenures of the last iteration,
                    \* each entry together with the leaver it was read for
    lt_records,     \* plot_leaver_tenure_time: records
    rendered,       \* the concentration plots that have been rendered
    topn_records,   \* plot_concentration_topn_time: records
    hhi_records,    \* plot_concentration_hhi_time: records
    ts_labels,      \* the labels _time_series_labels returned last
    top5_cap,       \* plot_top5_sectors: top5 and by_q_sector
    top5_eqw,       \* plot_top5_sectors_eqw: top5 and by_q_sector
    page,           \* page: "main" or "company"
    company_search, \* input.company_search()
    company_choice, \* input.company_choice()
    choices,        \* the choices of the company_choice selectize
    company_mcap,   \* plot_company_mcap: x and y
    company_rank,   \* plot_company_rank: x and y
    company_best_rank,      \* vb_company_best_rank: value
    show_time,              \* show_time
    pending_company_key,    \* pending_company_key
    pending_company_label,  \* pending_company_label
    quarter_choices,        \* the choices of the quarter selectize
    quarters_invalidated    \* _update_quarters has yet to run for input.year()

loadVars == <<raw, DF>>

inputVars == <<sel_year, sel_quarter>>

outVars == <<dist_col, dist, n_companies, index_mcap, kpi_firms>>

uiVars == <<inputVars, outVars, keyed>>

jlVars == <<jl_idx, jl_prev_set, jl_records>>

ltVars == <<lt_idx, lt_prev_set, lt_prev_streak, lt_tenures, lt_records>>

concVars == <<rendered, topn_records, hhi_records>>

passVars == <<jlVars, ltVars, concVars>>

sectorVars == <<top5_cap, top5_eqw>>

compVars ==
    <<page, company_search, company_choice, choices, company_mcap, company_rank,
      company_best_rank>>

flowVars == <<show_time, pending_company_key, pending_company_label>>

quarterVars == <<quarter_choices, quarters_invalidated>>

viewVars == <<ts_labels, sectorVars, compVars, flowVars, quarterVars>>

vars == <<loadVars, DF_columns, pc, uiVars, passVars, viewVars>>

-----------------------------------------------------------------------------
(* Cells *)

NA == <<"<NA>">>

NaN == -1

NaT == [y |-> 0, m |-> 0]

RECURSIVE lstrip(_)
lstrip(s) == IF s # <<>> /\ Head(s) = " " THEN lstrip(Tail(s)) ELSE s

RECURSIVE rstrip(_)
rstrip(s) ==
    IF s # <<>> /\ s[Len(s)] = " " THEN rstrip(SubSeq(s, 1, Len(s) - 1)) ELSE s

strip(s) == rstrip(lstrip(s))

fillna(v, dflt) == IF v = NA THEN dflt ELSE v

to_datetime(c) == IF c.kind = "date" THEN [y |-> c.y, m |-> c.m] ELSE NaT

Range(s) == {s[i] : i \in DOMAIN s}

SeqMap(Op(_), s) == [i \in DOMAIN s |-> Op(s[i])]

-----------------------------------------------------------------------------
(* Frames: a handler works on the panel object itself or on a copy of it, and  *)
(* an assignment d[col] = ... made to the panel object changes DF.             *)

Panel == [is_panel |-> TRUE, columns |-> DF_columns]

no_copy(f) == f

\* d.copy()
copy(f) == [is_panel |-> FALSE, columns |-> f.columns]

\* d[col] = ...
setitem(f, col) == [f EXCEPT !.columns = @ \cup {col}]

\* DF.columns once the handler has made its assignments to the frames
columns_after(frames) ==
    DF_columns \cup UNION {f.columns : f \in {g \in frames : g.is_panel}}

\* filtered: d = DF.loc[...].copy(); d["rank_mcap"] = ...
filtered_frame == setitem(copy(Panel), "rank_mcap")

\* _with_company_key: dd = d.copy(); dd["_company_key"] = key
_with_company_key_frame(f) == setitem(copy(f), "_company_key")

\* _distribution_counts: dd = _with_company_key(d); dd["_company_key"] = ...;
\* dd = dd.loc[...].copy(); dd["_cat"] = cat
_distribution_counts_frame(f) ==
    setitem(copy(setitem(_with_company_key_frame(f), "_company_key")), "_cat")

\* the time series plots: d = _with_company_key(DF.copy());
\* d["_company_key"] = ...; d = d.loc[...].copy()
keyed_panel_frame == copy(setitem(_with_company_key_frame(copy(Panel)), "_company_key"))

\* the concentration plots: the same, with d["mcap_eur"] = pd.to_numeric(...)
cap_panel_frame ==
    copy(setitem(setitem(_with_company_key_frame(copy(Panel)), "_company_key"), "mcap_eur"))

-----------------------------------------------------------------------------
(* load_euro500_data *)

\* the columns of the table read, and those of the frame returned
RawColumns ==
    {"date", "firm_id", "isin", "name", "hq_country", "hq_code", "sector",
     "mcap_eur", "rank_mcap"}

LoadColumns == RawColumns \cup {"year", "q_year", "q_num", "q_label"}

qnum_map == (12 :> 1) @@ (3 :> 2) @@ (6 :> 3) @@ (9 :> 4)

map_qnum(month) == IF month \in DOMAIN qnum_map THEN qnum_map[month] ELSE NaN

q_num_calendar(month) == ((month - 1) \div 3) + 1

q_num_of(month) ==
    IF map_qnum(month) = NaN THEN ((month - 1) \div 3) + 1 ELSE map_qnum(month)

q_year_calendar(date) == date.y

q_year_of(date) == date.y + (IF date.m = 12 THEN 1 ELSE 0)

q_label_of(qy, qn) == ToString(qy) \o "Q" \o ToString(qn)

LoadRow(r) ==
    LET date == to_datetime(r.date)
        qn   == q_num_of(date.m)
        qy   == q_year_of(date)
    IN  [date |-> date, year |-> date.y,
         firm_id |-> r.firm_id, isin |-> r.isin, name |-> r.name,
         hq_country |-> r.hq_country, hq_code |-> r.hq_code,
         sector |-> r.sector, mcap_eur |-> r.mcap_eur, rank_mcap |-> r.rank_mcap,
         q_year |-> qy, q_num |-> qn, q_label |-> q_label_of(qy, qn)]

DateNotNa_any(r) == TRUE

DateNotNa(r) == to_datetime(r.date) # NaT

load_euro500_data(table) == SeqMap(LoadRow, SelectSeq(table, DateNotNa))

-----------------------------------------------------------------------------
(* _with_company_key and the cleaning its callers apply to the key *)

_series_clean_str(cell) == strip(fillna(cell, <<>>))

company_key_swapped(r) ==
    LET fid  == _series_clean_str(r.firm_id)
        isin == _series_clean_str(r.isin)
        name == _series_clean_str(r.name)
        hq   == _series_clean_str(r.hq_code)
        key1 == IF isin # <<>> THEN isin ELSE fid
        name_fallback == IF hq = <<>> THEN name ELSE name \o <<" ", "|", " ">> \o hq
    IN  IF key1 # <<>> THEN key1 ELSE name_fallback

company_key(r) ==
    LET fid  == _series_clean_str(r.firm_id)
        isin == _series_clean_str(r.isin)
        name == _series_clean_str(r.name)
        hq   == _series_clean_str(r.hq_code)
        key1 == IF fid # <<>> THEN fid ELSE isin
        name_fallback == IF hq = <<>> THEN name ELSE name \o <<" ", "|", " ">> \o hq
    IN  IF key1 # <<>> THEN key1 ELSE name_fallback

KeyRow(r) == [row |-> r, company_key |-> company_key(r)]

_with_company_key(d) == SeqMap(KeyRow, d)

\* d["_company_key"].fillna("").astype(str).str.strip()
clean_key(k) == strip(fillna(k, <<>>))

-----------------------------------------------------------------------------
(* vb_firms *)

\* d[id_col].nunique(), id_col being firm_id
firm_id_nunique(d) == Cardinality({r.firm_id : r \in Range(d)} \ {NA})

-----------------------------------------------------------------------------
(* _time_series_labels *)

QuarterBefore_by_num(t, u) == t[2] < u[2] \/ (t[2] = u[2] /\ t[1] <= u[1])

QuarterBefore(t, u) == t[1] < u[1] \/ (t[1] = u[1] /\ t[2] <= u[2])

RECURSIVE sort_quarters(_)
sort_quarters(S) ==
    IF S = {} THEN <<>>
    ELSE LET first == CHOOSE t \in S : \A u \in S : QuarterBefore(t, u)
         IN  <<first>> \o sort_quarters(S \ {first})

LabelOf(t) == t[3]

_time_series_labels_desc(d) ==
    LET asc == SeqMap(LabelOf, sort_quarters({<<r.q_year, r.q_num, r.q_label>> : r \in Range(d)}))
    IN  [i \in DOMAIN asc |-> asc[Len(asc) + 1 - i]]

_time_series_labels(d) ==
    SeqMap(LabelOf, sort_quarters({<<r.q_year, r.q_num, r.q_label>> : r \in Range(d)}))

-----------------------------------------------------------------------------
(* plot_joiner_leaver_time and plot_leaver_tenure_time *)

HasKey(kr) == clean_key(kr.company_key) # <<>>

\* d = _with_company_key(DF.copy()) with the rows of empty key removed
KeyedRows(d) == SelectSeq(_with_company_key(d), HasKey)

\* by_q.get(lbl, set())
by_q_get(d, lbl) ==
    {clean_key(kr.company_key) : kr \in {x \in Range(d) : x.row.q_label = lbl}}

joiners_of(cur_set, prev_set) ==
    IF prev_set # {} THEN Cardinality(cur_set \ prev_set) ELSE 0

leavers_of(cur_set, prev_set) ==
    IF prev_set # {} THEN Cardinality(prev_set \ cur_set) ELSE 0

get(dict, k, dflt) == IF k \in DOMAIN dict THEN dict[k] ELSE dflt

tenures_of(leavers, prev_streak) ==
    {<<k, get(prev_streak, k, 0)>> : k \in {x \in leavers : get(prev_streak, x, 0) > 0}}

RECURSIVE SumPairs(_)
SumPairs(S) ==
    IF S = {} THEN 0
    ELSE LET p == CHOOSE x \in S : TRUE IN p[2] + SumPairs(S \ {p})

mean_of_sum(tenures) == [num |-> SumPairs(tenures), den |-> 1]

\* float(pd.Series(tenures).mean()) if tenures else 0.0
mean_of(tenures) ==
    IF tenures # {} THEN [num |-> SumPairs(tenures), den |-> Cardinality(tenures)]
    ELSE [num |-> 0, den |-> 1]

streak_always_one(k, prev_set, prev_streak) == 1

streak_of(k, prev_set, prev_streak) ==
    IF k \in prev_set THEN get(prev_streak, k, 0) + 1 ELSE 1

cur_streak_of_stayers(cur_set, prev_set, prev_streak) ==
    [k \in cur_set \cap prev_set |-> streak_of(k, prev_set, prev_streak)]

cur_streak_of(cur_set, prev_set, prev_streak) ==
    [k \in cur_set |-> streak_of(k, prev_set, prev_streak)]

-----------------------------------------------------------------------------
(* filtered and _latest_quarter_label *)

DateLeq(a, b) == a.y < b.y \/ (a.y = b.y /\ a.m <= b.m)

_earliest_quarter_label(d) ==
    IF d = <<>> THEN ""
    ELSE LET first_date == CHOOSE x \in {r.date : r \in Range(d)} :
                                \A z \in {r.date : r \in Range(d)} : DateLeq(x, z)
             first_rows == SelectSeq(d, LAMBDA r : r.date = first_date)
         IN  first_rows[1].q_label

_latest_quarter_label(d) ==
    IF d = <<>> THEN ""
    ELSE LET latest_date == CHOOSE x \in {r.date : r \in Range(d)} :
                                \A z \in {r.date : r \in Range(d)} : DateLeq(z, x)
             latest_rows == SelectSeq(d, LAMBDA r : r.date = latest_date)
         IN  latest_rows[1].q_label

\* The order of the characters that occur in the cells.
Ord ==
    (" " :> 32) @@ ("(" :> 40) @@ (")" :> 41) @@ ("A" :> 65) @@ ("B" :> 66) @@
    ("C" :> 67) @@ ("D" :> 68) @@ ("E" :> 69) @@ ("I" :> 73) @@ ("M" :> 77) @@
    ("N" :> 78) @@ ("S" :> 83) @@ ("T" :> 84) @@ ("g" :> 103) @@ ("i" :> 105) @@
    ("n" :> 110) @@ ("s" :> 115) @@ ("|" :> 124) @@
    ("0" :> 48) @@ ("1" :> 49) @@ ("2" :> 50) @@ ("3" :> 51) @@ ("4" :> 52) @@
    ("5" :> 53) @@ ("6" :> 54) @@ ("7" :> 55) @@ ("8" :> 56) @@ ("9" :> 57) @@
    ("G" :> 71) @@ ("O" :> 79) @@ ("W" :> 87) @@ ("X" :> 88) @@ ("a" :> 97) @@ ("c" :> 99) @@
    ("e" :> 101) @@ ("m" :> 109) @@ ("o" :> 111) @@ ("t" :> 116) @@ ("w" :> 119) @@
    ("x" :> 120)

RECURSIVE StrCmp(_, _)
StrCmp(a, b) ==
    IF a = <<>> /\ b = <<>> THEN 0
    ELSE IF a = <<>> THEN -1
    ELSE IF b = <<>> THEN 1
    ELSE IF Ord[Head(a)] < Ord[Head(b)] THEN -1
    ELSE IF Ord[Head(a)] > Ord[Head(b)] THEN 1
    ELSE StrCmp(Tail(a), Tail(b))

\* The comparisons of sort_values: missing values last.
DateCmpDesc(a, b) == IF a = b THEN 0 ELSE IF DateLeq(b, a) THEN -1 ELSE 1

NumCmpAsc(x, y) ==
    IF x = y THEN 0 ELSE IF x = NaN THEN 1 ELSE IF y = NaN THEN -1
    ELSE IF x < y THEN -1 ELSE 1

StrCmpAsc(x, y) ==
    IF x = y THEN 0 ELSE IF x = NA THEN 1 ELSE IF y = NA THEN -1 ELSE StrCmp(x, y)

\* sort_cols = [date, rank_mcap, firm_id], ascending = [False, True, True]
RowCmp(a, b) ==
    IF DateCmpDesc(a.date, b.date) # 0 THEN DateCmpDesc(a.date, b.date)
    ELSE IF NumCmpAsc(a.rank_mcap, b.rank_mcap) # 0 THEN NumCmpAsc(a.rank_mcap, b.rank_mcap)
    ELSE StrCmpAsc(a.firm_id, b.firm_id)

RECURSIVE InsertSorted(_, _)
InsertSorted(x, s) ==
    IF s = <<>> THEN <<x>>
    ELSE IF RowCmp(x, Head(s)) < 0 THEN <<x>> \o s
    ELSE <<Head(s)>> \o InsertSorted(x, Tail(s))

\* d.sort_values(sort_cols, ascending=asc, kind="mergesort")
RECURSIVE sort_values(_)
sort_values(d) ==
    IF d = <<>> THEN <<>>
    ELSE InsertSorted(d[Len(d)], sort_values(SubSeq(d, 1, Len(d) - 1)))

MaxOf(S) == CHOOSE x \in S : \A z \in S : z <= x

filtered(df, year, quarter) ==
    IF df = <<>> THEN <<>>
    ELSE LET y_int == IF year = NaN THEN MaxOf({r.q_year : r \in Range(df)}) ELSE year
             d     == SelectSeq(df, LAMBDA r : r.q_year = y_int)
             default_q == _latest_quarter_label(d)
             dq    == IF quarter # ""
                      THEN SelectSeq(d, LAMBDA r : r.q_label = quarter)
                      ELSE IF default_q # ""
                           THEN SelectSeq(d, LAMBDA r : r.q_label = default_q)
                           ELSE d
         IN  sort_values(dq)

-----------------------------------------------------------------------------
(* _update_quarters *)

\* d = DF.loc[DF[year_col] == y, ["date", "q_label"]].copy()
rows_of_year(df, y) == SelectSeq(df, LAMBDA r : r.q_year = y)

\* d["q_label"].sort_values().unique().tolist(): the labels of the rows of one
\* fiscal year differ in their last character alone, the quarter number, so
\* their order as strings is the order of the quarter numbers.
qlabels_of(d) ==
    SeqMap(LabelOf, sort_quarters({<<r.q_year, r.q_num, r.q_label>> : r \in Range(d)}))

default_q_first(d) == IF qlabels_of(d) # <<>> THEN qlabels_of(d)[1] ELSE ""

\* default_q = _latest_quarter_label(d), replaced by the last of qlabels when
\* it is not one of them
default_q_of(d) ==
    LET default_q == _latest_quarter_label(d)
        qlabels   == qlabels_of(d)
    IN  IF default_q # "" /\ default_q \notin Range(qlabels)
        THEN IF qlabels # <<>> THEN qlabels[Len(qlabels)] ELSE ""
        ELSE default_q

\* d["date"] = pd.to_datetime(d["date"], errors="coerce") on the copy
_update_quarters_frame == setitem(copy(Panel), "date")

-----------------------------------------------------------------------------
(* vb_rows, _unique_company_count and _distribution_counts *)

RECURSIVE SumSeq(_)
SumSeq(s) == IF s = <<>> THEN 0 ELSE Head(s) + SumSeq(Tail(s))

\* d["mcap_eur"].sum(skipna=True)
mcap_sum(d) == SumSeq(SeqMap(LAMBDA r : IF r.mcap_eur = NaN THEN 0 ELSE r.mcap_eur, d))

_unique_company_count(d) ==
    IF d = <<>> THEN 0
    ELSE Cardinality({clean_key(kr.company_key) : kr \in Range(KeyedRows(d))})

missing_label == <<"(", "M", "i", "s", "s", "i", "n", "g", ")">>

category_of(kr, category_col) ==
    LET cat == strip(fillna(kr.row[category_col], missing_label))
    IN  IF cat # <<>> THEN cat ELSE missing_label

\* dd.groupby("_cat")["_company_key"].nunique()
n_companies_of(dd, cat, category_col) ==
    Cardinality({clean_key(kr.company_key) :
                    kr \in {x \in Range(dd) : category_of(x, category_col) = cat}})

RECURSIVE SumOver(_, _)
SumOver(f, S) ==
    IF S = {} THEN 0
    ELSE LET x == CHOOSE z \in S : TRUE IN f[x] + SumOver(f, S \ {x})

total_distinct(dd, counts) == Cardinality({clean_key(kr.company_key) : kr \in Range(dd)})

total_of(dd, counts) == SumOver(counts, DOMAIN counts)

\* The rows of the result, before sort_values("n_companies", ascending=False).
distribution_rows(d, category_col) ==
    LET dd     == KeyedRows(d)
        cats   == {category_of(kr, category_col) : kr \in Range(dd)}
        counts == [c \in cats |-> n_companies_of(dd, c, category_col)]
        total  == total_of(dd, counts)
    IN  IF d = <<>> \/ dd = <<>> \/ total <= 0 THEN {}
        ELSE {[category |-> c, n_companies |-> counts[c],
               share_pct |-> [num |-> counts[c] * 100, den |-> total]] : c \in cats}

\* The orders sort_values("n_companies", ascending=False) can leave the rows in:
\* the sort is not a stable one, so rows with equal n_companies come in any order.
_distribution_counts(d, category_col) ==
    LET rows == distribution_rows(d, category_col)
        n    == Cardinality(rows)
    IN  {s \in [1 .. n -> rows] :
            /\ \A i, j \in 1 .. n : i # j => s[i] # s[j]
            /\ \A i, j \in 1 .. n : i < j => s[i].n_companies >= s[j].n_companies}

-----------------------------------------------------------------------------
(* plot_concentration_topn_time and plot_concentration_hhi_time *)

HasKeyAndCap(kr) == clean_key(kr.company_key) # <<>> /\ kr.row.mcap_eur # NaN

\* d.loc[(d["_company_key"] != "") & d["mcap_eur"].notna()]
CapRows(d) == SelectSeq(_with_company_key(d), HasKeyAndCap)

\* d.groupby([label_col, "_company_key"])["mcap_eur"].max(), for one label
d_agg(d, lbl) ==
    LET rows == {kr \in Range(d) : kr.row.q_label = lbl}
        keys == {clean_key(kr.company_key) : kr \in rows}
    IN  [k \in keys |->
            MaxOf({kr.row.mcap_eur : kr \in {x \in rows : clean_key(x.company_key) = k}})]

RECURSIVE InsertDesc(_, _)
InsertDesc(x, s) ==
    IF s = <<>> THEN <<x>>
    ELSE IF x > Head(s) THEN <<x>> \o s
    ELSE <<Head(s)>> \o InsertDesc(x, Tail(s))

\* the values of a column, sort_values(ascending=False)
RECURSIVE sorted_desc(_, _)
sorted_desc(f, S) ==
    IF S = {} THEN <<>>
    ELSE LET k == CHOOSE z \in S : TRUE
         IN  InsertDesc(f[k], sorted_desc(f, S \ {k}))

head_one_less(s, n) == SubSeq(s, 1, IF Len(s) < n - 1 THEN Len(s) ELSE n - 1)

head(s, n) == SubSeq(s, 1, IF Len(s) < n THEN Len(s) ELSE n)

Zero == [num |-> 0, den |-> 1]

\* (float(s.head(n).sum()) / total) * 100 if total > 0 else 0.0
top_share(ss, n) ==
    LET total == SumSeq(ss)
    IN  IF ss = <<>> \/ total <= 0 THEN Zero
        ELSE [num |-> SumSeq(head(ss, n)) * 100, den |-> total]

topn_of(d, lbl) ==
    LET agg == d_agg(d, lbl)
        ss  == sorted_desc(agg, DOMAIN agg)
    IN  <<[label |-> lbl, series |-> "Top 10", share |-> top_share(ss, 10)],
          [label |-> lbl, series |-> "Top 50", share |-> top_share(ss, 50)]>>

RECURSIVE FlatMap(_, _)
FlatMap(Op(_), s) == IF s = <<>> THEN <<>> ELSE Op(Head(s)) \o FlatMap(Op, Tail(s))

topn_records_of(df) ==
    LET d == CapRows(df)
    IN  IF df = <<>> \/ d = <<>> THEN <<>>
        ELSE FlatMap(LAMBDA lbl : topn_of(d, lbl), _time_series_labels(df))

hhi_unsquared(agg) ==
    LET total == SumOver(agg, DOMAIN agg)
    IN  IF total > 0
        THEN [num |-> SumOver(agg, DOMAIN agg) * 10000, den |-> total]
        ELSE Zero

\* float((w.pow(2).sum()) * 10000.0) with w = s / total, if total > 0 else 0.0
hhi_points(agg) ==
    LET total == SumOver(agg, DOMAIN agg)
    IN  IF total > 0
        THEN [num |-> SumOver([k \in DOMAIN agg |-> agg[k] * agg[k]], DOMAIN agg) * 10000,
              den |-> total * total]
        ELSE Zero

hhi_records_of(df) ==
    LET d == CapRows(df)
    IN  IF df = <<>> \/ d = <<>> THEN <<>>
        ELSE SeqMap(LAMBDA lbl : [label |-> lbl, hhi |-> hhi_points(d_agg(d, lbl))],
                    _time_series_labels(df))

-----------------------------------------------------------------------------
(* Figures *)

\* a plot that has not been drawn, and one drawn without data (px.bar())
NoFigure == [drawn |-> FALSE]

EmptyFigure == [drawn |-> TRUE, empty |-> TRUE]

\* a float that is NaN
NaNPoint == [num |-> 0, den |-> 0]

-----------------------------------------------------------------------------
(* plot_top5_sectors and plot_top5_sectors_eqw *)

\* The sets that sort_values(ascending=False).head(5).index can be: the sort
\* is not a stable one, so groups with equal totals come in any order.
top5_of(total) ==
    LET cats == DOMAIN total
        n    == IF Cardinality(cats) < 5 THEN Cardinality(cats) ELSE 5
    IN  {T \in SUBSET cats :
            /\ Cardinality(T) = n
            /\ \A c \in T : \A o \in cats \ T : total[c] >= total[o]}

\* d.groupby(sector_col)["mcap_eur"].sum(); groupby leaves out the rows
\* without a sector
cap_by_sector(d) ==
    [c \in {r.sector : r \in Range(d)} \ {NA} |->
        mcap_sum(SelectSeq(d, LAMBDA r : r.sector = c))]

\* (by_q_sector["mcap_eur"] / by_q_sector["mcap_eur_total"]) * 100: a float
\* division, NaN for 0 / 0
cap_share(d, lbl, c) ==
    LET part  == mcap_sum(SelectSeq(d, LAMBDA r : r.q_label = lbl /\ r.sector = c))
        total == mcap_sum(SelectSeq(d, LAMBDA r : r.q_label = lbl))
    IN  IF total = 0 THEN NaNPoint ELSE [num |-> part * 100, den |-> total]

\* by_q_sector, restricted to top5
cap_rows(d, top5) ==
    {[label |-> r.q_label, sector |-> r.sector,
      share |-> cap_share(d, r.q_label, r.sector)] :
        r \in {x \in Range(d) : x.sector \in top5}}

plot_top5_sectors_of(df) ==
    IF df = <<>> \/ _time_series_labels(df) = <<>> THEN {EmptyFigure}
    ELSE {[drawn |-> TRUE, empty |-> FALSE, top5 |-> T, rows |-> cap_rows(df, T)] :
            T \in top5_of(cap_by_sector(df))}

\* d.groupby(sector_col)["_company_key"].size()
size_by_sector(d) ==
    [c \in {kr.row.sector : kr \in Range(d)} \ {NA} |->
        Len(SelectSeq(d, LAMBDA kr : kr.row.sector = c))]

\* (n_firms / n_firms_total) * 100, both being nunique of the key
eqw_share(d, lbl, c) ==
    LET in_q == {kr \in Range(d) : kr.row.q_label = lbl}
    IN  [num |-> Cardinality({clean_key(kr.company_key) :
                                kr \in {x \in in_q : x.row.sector = c}}) * 100,
         den |-> Cardinality({clean_key(kr.company_key) : kr \in in_q})]

eqw_rows(d, top5) ==
    {[label |-> kr.row.q_label, sector |-> kr.row.sector,
      share |-> eqw_share(d, kr.row.q_label, kr.row.sector)] :
        kr \in {x \in Range(d) : x.row.sector \in top5}}

plot_top5_sectors_eqw_of(df) ==
    LET d == KeyedRows(df)
    IN  IF df = <<>> \/ _time_series_labels(df) = <<>> \/ d = <<>> THEN {EmptyFigure}
        ELSE {[drawn |-> TRUE, empty |-> FALSE, top5 |-> T, rows |-> eqw_rows(d, T)] :
                T \in top5_of(size_by_sector(d))}

-----------------------------------------------------------------------------
(* The company page: _company_df, plot_company_mcap, plot_company_rank *)

_company_df(df, choice) ==
    LET key == strip(choice)
    IN  IF key = <<>> THEN <<>>
        ELSE SelectSeq(_with_company_key(df), LAMBDA kr : kr.company_key = key)

MinOf(S) == CHOOSE x \in S : \A z \in S : x <= z

\* the rows of the company that carry label lbl
rows_of_label(d, lbl) == {kr.row : kr \in {x \in Range(d) : x.row.q_label = lbl}}

\* d.groupby(label_col)["mcap_eur"].max().reindex(labels), at lbl
mcap_max(d, lbl) ==
    LET caps == {r.mcap_eur : r \in rows_of_label(d, lbl)} \ {NaN}
    IN  IF caps = {} THEN NaNPoint ELSE [num |-> MaxOf(caps), den |-> 1]

\* series.reindex(labels).fillna(0.0) / 1e9, at lbl
mcap_point(d, lbl) ==
    [num |-> IF mcap_max(d, lbl) = NaNPoint THEN 0 ELSE mcap_max(d, lbl).num,
     den |-> 1000000000]

rank_point_filled(d, lbl) ==
    LET ranks == {x \in {r.rank_mcap : r \in rows_of_label(d, lbl)} : x # NaN /\ x >= 1}
    IN  IF ranks = {} THEN 0 ELSE MinOf(ranks)

\* series.where(series >= 1), d.groupby(label_col)["_rank_num"].min()
\* .reindex(labels), at lbl
rank_point(d, lbl) ==
    LET ranks == {x \in {r.rank_mcap : r \in rows_of_label(d, lbl)} : x # NaN /\ x >= 1}
    IN  IF ranks = {} THEN NaN ELSE MinOf(ranks)

\* str(d["name"].dropna().iloc[0]), "" when there is none
first_name(d) ==
    LET named == SelectSeq(d, LAMBDA kr : kr.row.name # NA)
    IN  IF named = <<>> THEN <<>> ELSE named[1].row.name

company_figure(df, pg, choice, Point(_, _)) ==
    LET labels == _time_series_labels(df)
        d      == _company_df(df, choice)
    IN  IF pg # "company" \/ strip(choice) = <<>> \/ labels = <<>> \/ d = <<>>
        THEN EmptyFigure
        ELSE [drawn |-> TRUE, empty |-> FALSE, title |-> first_name(d),
              x |-> labels, y |-> [i \in DOMAIN labels |-> Point(d, labels[i])]]

plot_company_mcap_of(df, pg, choice) == company_figure(df, pg, choice, mcap_point)

plot_company_rank_of(df, pg, choice) == company_figure(df, pg, choice, rank_point)

best_rank_of_any(d) ==
    LET ranks == {kr.row.rank_mcap : kr \in Range(d)} \ {NaN}
    IN  IF ranks = {} THEN NaN ELSE MinOf(ranks)

\* r = pd.to_numeric(d["rank_mcap"]); r = r.where(r >= 1); r.min(), NaN
\* standing for the dash shown when there is none
best_rank_of(d) ==
    LET ranks == {x \in {kr.row.rank_mcap : kr \in Range(d)} : x # NaN /\ x >= 1}
    IN  IF ranks = {} THEN NaN ELSE MinOf(ranks)

vb_company_best_rank_of(df, choice) ==
    [drawn |-> TRUE, value |-> best_rank_of(_company_df(df, choice))]

-----------------------------------------------------------------------------
(* The company search: _companies_master and _update_company_choices *)

\* str.upper(), on the characters that occur in the cells
UpperOf ==
    ("a" :> "A") @@ ("c" :> "C") @@ ("e" :> "E") @@ ("g" :> "G") @@ ("i" :> "I") @@
    ("m" :> "M") @@ ("n" :> "N") @@ ("o" :> "O") @@ ("s" :> "S") @@ ("t" :> "T") @@
    ("w" :> "W") @@ ("x" :> "X")

upper(s) == [i \in DOMAIN s |-> IF s[i] \in DOMAIN UpperOf THEN UpperOf[s[i]] ELSE s[i]]

\* str.contains(needle, regex=False)
contains(hay, needle) ==
    \E i \in 1 .. (Len(hay) - Len(needle) + 1) :
        SubSeq(hay, i, i + Len(needle) - 1) = needle

startswith(str, prefix) ==
    Len(prefix) <= Len(str) /\ SubSeq(str, 1, Len(prefix)) = prefix

\* The row that sort_values("_sort_date", kind="mergesort") and
\* groupby("_company_key").tail(1) keep for key k: the last of the latest.
last_row(d, k) ==
    LET idx  == {i \in DOMAIN d : strip(d[i].company_key) = k}
        best == CHOOSE i \in idx :
                    \A j \in idx : /\ DateLeq(d[j].row.date, d[i].row.date)
                                   /\ d[j].row.date = d[i].row.date => j <= i
    IN  d[best].row

master_row(d, k) ==
    LET r    == last_row(d, k)
        name == _series_clean_str(r.name)
        display_name == IF name # <<>> THEN name ELSE k
        fid  == _series_clean_str(r.firm_id)
        isin == _series_clean_str(r.isin)
    IN  [_company_key |-> k, _display_name |-> display_name,
         _firm_id |-> fid, _isin |-> isin,
         _search_blob |-> upper(k) \o <<" ">> \o upper(display_name) \o <<" ">> \o
                          upper(fid) \o <<" ">> \o upper(isin)]

_companies_master(df) ==
    LET d == SelectSeq(_with_company_key(df), LAMBDA kr : strip(kr.company_key) # <<>>)
    IN  {master_row(d, k) : k \in {strip(kr.company_key) : kr \in Range(d)}}

m_exact(m, q_upper) ==
    \/ upper(m._company_key) = q_upper
    \/ upper(m._firm_id) = q_upper
    \/ upper(m._isin) = q_upper
    \/ upper(m._display_name) = q_upper

m_starts(m, q_upper) ==
    \/ startswith(upper(m._company_key), q_upper)
    \/ startswith(upper(m._firm_id), q_upper)
    \/ startswith(upper(m._isin), q_upper)
    \/ startswith(upper(m._display_name), q_upper)

rank_without_exact(m, q_upper) == (IF m_starts(m, q_upper) THEN 0 ELSE 1) * 10

\* matches["_rank"]
rank_of(m, q_upper) ==
    (IF m_exact(m, q_upper) THEN 0 ELSE 1) * 100 + (IF m_starts(m, q_upper) THEN 0 ELSE 1) * 10

ranked(m, q_upper) ==
    [_company_key |-> m._company_key, _display_name |-> m._display_name,
     _rank |-> rank_of(m, q_upper), _name_sort |-> upper(m._display_name)]

\* the order of sort_values(["_rank", "_name_sort", "_company_key"])
MatchBefore(a, b) ==
    \/ a._rank < b._rank
    \/ a._rank = b._rank /\ StrCmp(a._name_sort, b._name_sort) < 0
    \/ /\ a._rank = b._rank /\ StrCmp(a._name_sort, b._name_sort) = 0
       /\ StrCmp(a._company_key, b._company_key) <= 0

RECURSIVE sort_matches(_)
sort_matches(S) ==
    IF S = {} THEN <<>>
    ELSE LET first == CHOOSE m \in S : \A u \in S : MatchBefore(m, u)
         IN  <<first>> \o sort_matches(S \ {first})

\* matches, sorted, .head(50)
search_matches(df, q_upper) ==
    LET master == _companies_master(df)
    IN  head(sort_matches({ranked(m, q_upper) :
                              m \in {x \in master : contains(x._search_blob, q_upper)}}),
             50)

\* the selection: the one there is if it is among the values, otherwise the
\* first exact match of the key, otherwise of the display name, otherwise none
selected_of(matches, q_upper, selected) ==
    LET by_key  == SelectSeq(matches, LAMBDA m : upper(m._company_key) = q_upper)
        by_name == SelectSeq(matches, LAMBDA m : upper(m._display_name) = q_upper)
    IN  IF selected \in {m._company_key : m \in Range(matches)} THEN selected
        ELSE IF by_key # <<>> THEN by_key[1]._company_key
        ELSE IF by_name # <<>> THEN by_name[1]._company_key
        ELSE <<>>

\* What _update_company_choices passes to ui.update_selectize.
_update_company_choices_of(df, search, selected) ==
    LET q       == strip(search)
        q_upper == upper(q)
        matches == search_matches(df, q_upper)
    IN  IF q = <<>> \/ matches = <<>> THEN [choices |-> <<>>, selected |-> <<>>]
        ELSE [choices |-> [i \in DOMAIN matches |->
                              [value |-> matches[i]._company_key,
                               label |-> matches[i]._display_name]],
              selected |-> selected_of(matches, q_upper, selected)]

-----------------------------------------------------------------------------
(* Navigation: back_to_main_btn, main_panel and the click on a table row *)

back_to_main_btn_company_only == page = "company"

\* whether back_to_main_btn renders the "Back to Main Page" button
back_to_main_btn == page = "company" \/ show_time

\* what main_panel renders
main_panel ==
    IF page = "company" THEN "company"
    ELSE IF ~show_time THEN "main"
    ELSE "time"

\* key = str(row.get("_company_key", "")).strip(), of a row of
\* _constituents_table_data
click_key(kr) == strip(kr.company_key)

\* label = str(row.get("_company_label", "")).strip(), _company_label being
\* the name, or the key where there is none; label if label else key
click_label(kr) ==
    LET name  == _series_clean_str(kr.row.name)
        label == strip(IF name # <<>> THEN name ELSE kr.company_key)
    IN  IF label # <<>> THEN label ELSE click_key(kr)

\* _constituents_table_data: d = _with_company_key(filtered());
\* d["_company_label"] = ...; d["mcap_eur"] = ...; d["rank_mcap"] = ...
_constituents_table_data_frame ==
    setitem(setitem(setitem(_with_company_key_frame(filtered_frame), "_company_label"),
                    "mcap_eur"), "rank_mcap")

pending_kept == pending_company_key

\* pending_company_key.set("")
pending_after_apply == <<>>

-----------------------------------------------------------------------------
(* Input tables *)

FirstYear == 2019

NumYears == 2

Years == FirstYear .. (FirstYear + NumYears - 1)

RawRow(date, fid, isin, name, hq_code, hq_country, sector, cap, rank) ==
    [date |-> date, firm_id |-> fid, isin |-> isin, name |-> name,
     hq_country |-> hq_country, hq_code |-> hq_code, sector |-> sector,
     mcap_eur |-> cap, rank_mcap |-> rank]

DateCell(y, m) == [kind |-> "date", y |-> y, m |-> m]

TextCell == [kind |-> "text", y |-> 0, m |-> 0]

NullCell == [kind |-> "null", y |-> 0, m |-> 0]

SeqsUpTo(U, n) == UNION {[1..k -> U] : k \in 1..n}

\* Tables for the load: every month of every year, and unparseable dates.
MaxLoadRows == 2

RawDates == {DateCell(y, m) : y \in Years, m \in 1..12} \cup {TextCell, NullCell}

LoadTables ==
    SeqsUpTo({RawRow(d, <<"A">>, NA, NA, NA, NA, NA, NaN, NaN) : d \in RawDates},
             MaxLoadRows)

\* Tables for the key: identifier cells that are missing, blank or padded.
MaxKeyRows == 2

KeyRows ==
    {RawRow(DateCell(FirstYear, m), fid, isin, name, hq, NA, NA, NaN, NaN) :
        m \in {3, 6},
        fid \in {NA, <<"A">>, <<" ", "A">>},
        isin \in {<<" ">>, <<"I">>},
        name \in {NA, <<"N">>},
        hq \in {<<>>, <<"D">>}}

KeyTables == SeqsUpTo(KeyRows, MaxKeyRows)

\* Tables for the turnover passes: NumQuarters consecutive quarter-end dates,
\* each with any subset of three kinds of row: company A (by firm_id),
\* company B (by isin) and a row with no identifier at all.
NumQuarters == 4

QuarterMonths == <<12, 3, 6, 9>>

QuarterDate(i) == DateCell(FirstYear + ((i + 3) \div 4), QuarterMonths[(i % 4) + 1])

KindOrder == <<"A", "B", "blank">>

KindRow(kind, date) ==
    CASE kind = "A" -> RawRow(date, <<"A">>, NA, <<"N">>, <<"D">>, NA, NA, NaN, NaN)
      [] kind = "B" -> RawRow(date, NA, <<"B">>, NA, NA, NA, NA, NaN, NaN)
      [] OTHER      -> RawRow(date, NA, <<" ">>, NA, NA, NA, NA, NaN, NaN)

QuarterRows(kinds, i) ==
    LET present == SelectSeq(KindOrder, LAMBDA k : k \in kinds)
    IN  [j \in DOMAIN present |-> KindRow(present[j], QuarterDate(i))]

RECURSIVE TableOf(_, _)
TableOf(f, n) == IF n = 0 THEN <<>> ELSE TableOf(f, n - 1) \o QuarterRows(f[n - 1], n - 1)

TurnoverTables ==
    {TableOf(f, NumQuarters) : f \in [0 .. NumQuarters - 1 -> SUBSET Range(KindOrder)]}

\* Tables for the two turnover passes run one after the other: in each quarter
\* no row, company A, companies A and B, or only a row with no identifier.
PassKinds == {{}, {"A"}, {"A", "B"}, {"blank"}}

PassTables == {TableOf(f, NumQuarters) : f \in [0 .. NumQuarters - 1 -> PassKinds]}

\* Tables for the distributions: a company with two rows in one quarter that
\* differ in the category, a company known by its isin, rows without any
\* identifier, a row with an hq_code only, and rows of another quarter and year.
MaxDistRows == 3

DistRows ==
    {RawRow(QuarterDate(0), <<"A">>, NA, <<"N">>, <<"D">>, <<"D">>, <<"S">>, 3, 1),
     RawRow(QuarterDate(0), <<"A">>, NA, <<"N">>, <<"D">>, <<"E">>, <<"T">>, 5, 1),
     RawRow(QuarterDate(0), NA, <<"B">>, NA, NA, <<"D">>, <<"S">>, 2, 2),
     RawRow(QuarterDate(0), NA, <<"B">>, NA, NA, NA, NA, NaN, NaN),
     RawRow(QuarterDate(0), <<" ">>, NA, NA, NA, <<"E">>, <<"S">>, 4, NaN),
     RawRow(QuarterDate(0), NA, NA, NA, <<"D">>, <<" ">>, <<" ">>, 1, 3),
     RawRow(QuarterDate(1), <<"C">>, NA, NA, NA, <<"E">>, <<"T">>, 1, 1),
     RawRow(DateCell(FirstYear, 9), <<"E">>, NA, NA, NA, <<"D">>, <<"S">>, 2, 1)}

DistTables == SeqsUpTo(DistRows, MaxDistRows)

\* Tables for the concentration plots: one quarter with n companies E1 .. En,
\* n around 0, 10 and 50, the cap of Ei being (CapSlope * i + CapOffset) mod
\* CapMod, and any of: a second, larger row for E1; a company without a cap
\* and a row without identifier that has one; a row for E1 in the next quarter.
Slack == 1

CapMod == 4

MaxSlope == 1

MaxOffset == 2

EntityCounts ==
    (0 .. Slack + 1) \cup (10 - Slack .. 10 + Slack) \cup (50 - Slack .. 50 + Slack)

Digits == <<"0", "1", "2", "3", "4", "5", "6", "7", "8", "9">>

RECURSIVE NumStr(_)
NumStr(i) ==
    IF i < 10 THEN <<Digits[i + 1]>> ELSE NumStr(i \div 10) \o <<Digits[(i % 10) + 1]>>

CapRow(date, fid, cap) == RawRow(date, fid, NA, NA, NA, NA, NA, cap, NaN)

ConcExtraOrder == <<"dup", "nocap", "later">>

ConcExtraRows(x) ==
    CASE x = "dup"   -> <<CapRow(QuarterDate(0), <<"E", "1">>, 5)>>
      [] x = "nocap" -> <<CapRow(QuarterDate(0), <<"X">>, NaN),
                          CapRow(QuarterDate(0), NA, 7)>>
      [] OTHER       -> <<CapRow(QuarterDate(1), <<" ", "E", "1">>, 2)>>

ConcTable(n, slope, offset, extras) ==
    [i \in 1 .. n |->
        CapRow(QuarterDate(0), <<"E">> \o NumStr(i), (slope * i + offset) % CapMod)]
    \o FlatMap(ConcExtraRows, SelectSeq(ConcExtraOrder, LAMBDA x : x \in extras))

ConcTables ==
    {ConcTable(n, slope, offset, extras) :
        n \in EntityCounts, slope \in 0 .. MaxSlope, offset \in 0 .. MaxOffset,
        extras \in SUBSET Range(ConcExtraOrder)}

\* Tables for the HHI: one quarter with up to MaxHhiEntities companies, each
\* with any cap up to MaxCap, and the same additional rows.
MaxHhiEntities == 3

MaxCap == 3

HhiTable(caps, extras) ==
    [i \in DOMAIN caps |-> CapRow(QuarterDate(0), <<"E">> \o NumStr(i), caps[i])]
    \o FlatMap(ConcExtraRows, SelectSeq(ConcExtraOrder, LAMBDA x : x \in extras))

HhiTables ==
    {HhiTable(caps, extras) :
        caps \in UNION {[1 .. n -> 0 .. MaxCap] : n \in 0 .. MaxHhiEntities},
        extras \in SUBSET Range(ConcExtraOrder)}

\* Tables for the company page: CompanyQuarters consecutive quarters; in each
\* company A (by firm_id) has no row, one row, a row without cap and with
\* rank 0, or two rows, and company B (by isin) has a row or none.
CompanyQuarters == 3

CompanyKinds == {"none", "one", "nocap", "two"}

CompanyRowsA(kind, date) ==
    CASE kind = "one"   -> <<RawRow(date, <<"A">>, NA, <<"N">>, <<"D">>, NA, NA, 10, 1)>>
      [] kind = "nocap" -> <<RawRow(date, <<"A">>, NA, NA, NA, NA, NA, NaN, 0)>>
      [] kind = "two"   -> <<RawRow(date, <<"A">>, NA, <<"N">>, <<"D">>, NA, NA, 3, 2),
                             RawRow(date, <<" ", "A">>, NA, <<"N">>, NA, NA, NA, 5, 1)>>
      [] OTHER          -> <<>>

CompanyRowsB(present, date) ==
    IF present THEN <<RawRow(date, NA, <<"B">>, <<"N", "a">>, NA, NA, NA, 2, 2)>> ELSE <<>>

RECURSIVE CompanyTable(_, _, _)
CompanyTable(a, b, n) ==
    IF n = 0 THEN <<>>
    ELSE CompanyTable(a, b, n - 1)
            \o CompanyRowsA(a[n - 1], QuarterDate(n - 1))
            \o CompanyRowsB(b[n - 1], QuarterDate(n - 1))

CompanyTables ==
    {CompanyTable(a, b, CompanyQuarters) :
        a \in [0 .. CompanyQuarters - 1 -> CompanyKinds],
        b \in [0 .. CompanyQuarters - 1 -> BOOLEAN]}

\* What the user types in the search box of the company page.
CompanyQueries == {<<>>, <<"n">>, <<"b", " ">>}

\* Tables for the search: one quarter with n companies E1 .. En, n around 0
\* and 50, and any of: X1 "Acme"; X10 "Acme Two"; AX1; a company known by its
\* isin "ex1", named "acme"; a later row that renames X1 to "Two".
SearchSlack == 1

SearchCounts == (0 .. SearchSlack) \cup (50 - SearchSlack .. 50 + SearchSlack)

NamedRow(date, fid, isin, name) == RawRow(date, fid, isin, name, NA, NA, NA, NaN, NaN)

SearchExtraOrder == <<"x1", "x10", "ax1", "ex1", "renamed">>

SearchExtraRows(x) ==
    CASE x = "x1"  -> <<NamedRow(QuarterDate(0), <<"X", "1">>, NA, <<"A", "c", "m", "e">>)>>
      [] x = "x10" -> <<NamedRow(QuarterDate(0), <<"X", "1", "0">>, NA,
                                 <<"A", "c", "m", "e", " ", "T", "w", "o">>)>>
      [] x = "ax1" -> <<NamedRow(QuarterDate(0), <<"A", "X", "1">>, NA, NA)>>
      [] x = "ex1" -> <<NamedRow(QuarterDate(0), NA, <<"e", "x", "1">>,
                                 <<"a", "c", "m", "e">>)>>
      [] OTHER     -> <<NamedRow(QuarterDate(1), <<"X", "1">>, NA, <<"T", "w", "o">>)>>

SearchTable(n, extras) ==
    [i \in 1 .. n |-> NamedRow(QuarterDate(0), <<"E">> \o NumStr(i), NA, NA)]
    \o FlatMap(SearchExtraRows, SelectSeq(SearchExtraOrder, LAMBDA x : x \in extras))

SearchTables ==
    {SearchTable(n, extras) : n \in SearchCounts, extras \in SUBSET Range(SearchExtraOrder)}

SearchQueries ==
    {<<>>, <<" ", "x", "1">>, <<"E", "1">>, <<"a", "c", "m", "e">>, <<"e">>,
     <<"x", "1", " ", "a", "c", "m", "e">>}

\* Tables for the sector plots: 4 to NumSectors sectors S1, S2, ..., the last
\* three with MaxSectorEntities companies in the first quarter and the others
\* with 1 to MaxSectorEntities, the caps growing or falling with the sector,
\* and any of: rows for the first company of S1 in
\* the two quarters that follow; a fourth quarter whose only row has no cap;
\* a row without a sector.
NumSectors == 6

MaxSectorEntities == 2

SectorName(i) == <<"S">> \o NumStr(i)

SectorRow(date, fid, sector, cap) == RawRow(date, fid, NA, NA, NA, NA, sector, cap, NaN)

SectorExtraOrder == <<"long", "zero", "nosector">>

SectorExtraRows(x) ==
    CASE x = "long" -> <<SectorRow(QuarterDate(1), <<"E", "1", "1">>, SectorName(1), 1),
                         SectorRow(QuarterDate(2), <<"E", "1", "1">>, SectorName(1), 1)>>
      [] x = "zero" -> <<SectorRow(QuarterDate(3), <<"Z">>, SectorName(2), NaN)>>
      [] OTHER      -> <<SectorRow(QuarterDate(0), <<"N">>, NA, 4)>>

RECURSIVE SectorTable(_, _, _, _)
SectorTable(cnt, rising, k, i) ==
    IF i = 0 THEN <<>>
    ELSE SectorTable(cnt, rising, k, i - 1) \o
         [j \in 1 .. (IF i \in DOMAIN cnt THEN cnt[i] ELSE MaxSectorEntities) |->
            SectorRow(QuarterDate(0), <<"E">> \o NumStr(10 * i + j), SectorName(i),
                      IF rising THEN i ELSE k + 1 - i)]

SectorTables ==
    UNION {{SectorTable(cnt, rising, k, k)
                \o FlatMap(SectorExtraRows, SelectSeq(SectorExtraOrder, LAMBDA x : x \in extras)) :
                cnt \in [1 .. k - 3 -> 1 .. MaxSectorEntities], rising \in BOOLEAN,
                extras \in SUBSET Range(SectorExtraOrder)} :
           k \in 4 .. NumSectors}

\* Tables for the rows of a company: company A in two quarters, company B
\* (by isin) and a row with an hq_code only, in any order.
RowsRows ==
    {RawRow(QuarterDate(0), <<"A">>, NA, <<"N">>, NA, NA, NA, 3, 1),
     RawRow(QuarterDate(1), <<"A">>, NA, <<"N">>, NA, NA, NA, 5, 2),
     RawRow(QuarterDate(0), NA, <<"B">>, NA, NA, NA, NA, 2, 2),
     RawRow(QuarterDate(0), NA, NA, NA, <<"D">>, NA, NA, 1, 3)}

RowsTables == SeqsUpTo(RowsRows, MaxDistRows)

\* What the user types to look up each of them.
RowsQueries == {<<"A">>, <<"B">>, <<"|", " ", "D">>}

\* Tables for the quarter selector: rows of company A in any order, dated in
\* quarters 3 and 4 of the first fiscal year (quarter 4 by a quarter-end and
\* by a later month) and in quarters 1 and 2 of the next.
QuarterRowDates ==
    {DateCell(FirstYear, 6), DateCell(FirstYear, 9), DateCell(FirstYear, 11),
     DateCell(FirstYear, 12), DateCell(FirstYear + 1, 3)}

QuarterTables ==
    SeqsUpTo({RawRow(d, <<"A">>, NA, NA, NA, NA, NA, 1, 1) : d \in QuarterRowDates},
             MaxDistRows)

\* Tables for the navigation: a company renamed from one quarter to the next;
\* two companies whose names overlap and a row with an hq_code only; a row
\* with no identifier at all; and no row.
NavTables ==
    {<<NamedRow(QuarterDate(0), <<"X", "1">>, NA, <<"A", "c", "m", "e">>),
       NamedRow(QuarterDate(1), <<"X", "1">>, NA, <<"T", "w", "o">>)>>,
     <<NamedRow(QuarterDate(0), <<"X", "1">>, NA, <<"A", "c", "m", "e">>),
       NamedRow(QuarterDate(0), <<"X", "1", "0">>, NA,
                <<"A", "c", "m", "e", " ", "T", "w", "o">>),
       RawRow(QuarterDate(0), NA, NA, NA, <<"D">>, NA, NA, 1, 3)>>,
     <<NamedRow(QuarterDate(0), NA, <<" ">>, NA)>>,
     <<>>}

\* What the user types in the search box between clicks.
NavQueries == {<<"a", "c", "m", "e">>, <<"t", "w", "o">>}

\* Tables for a whole session: no rows at all, and two companies of two
\* sectors in one quarter, the first of them with a second row.
PanelTables ==
    {<<>>,
     <<RawRow(QuarterDate(0), <<"A">>, NA, <<"N">>, <<"D">>, <<"D">>, <<"S">>, 3, 2),
       RawRow(QuarterDate(0), NA, <<"B">>, <<"N", "o">>, NA, <<"E">>, <<"T">>, 5, 1),
       RawRow(QuarterDate(0), <<"A">>, NA, <<"N">>, <<"D">>, <<"D">>, <<"S">>, NaN, NaN)>>}

PanelQueries == {<<>>, <<"n">>}

-----------------------------------------------------------------------------
(* Actions *)

Idle ==
    /\ sel_year = NaN /\ sel_quarter = ""
    /\ dist_col = "" /\ dist = <<>> /\ n_companies = NaN
    /\ index_mcap = NaN /\ kpi_firms = NaN
    /\ keyed = <<>>
    /\ jl_idx = 0 /\ jl_prev_set = {} /\ jl_records = <<>>
    /\ lt_idx = 0 /\ lt_prev_set = {} /\ lt_prev_streak = <<>>
    /\ lt_tenures = {} /\ lt_records = <<>>
    /\ rendered = {} /\ topn_records = <<>> /\ hhi_records = <<>>
    /\ ts_labels = NoFigure
    /\ top5_cap = NoFigure /\ top5_eqw = NoFigure
    /\ page = "main" /\ company_search = <<>> /\ company_choice = <<>>
    /\ choices = <<>>
    /\ company_mcap = NoFigure /\ company_rank = NoFigure
    /\ company_best_rank = NoFigure
    /\ show_time = FALSE
    /\ pending_company_key = <<>> /\ pending_company_label = <<>>
    /\ quarter_choices = <<>> /\ quarters_invalidated = FALSE

Boot(tables) == raw \in tables /\ DF = <<>> /\ DF_columns = {} /\ pc = "boot" /\ Idle

\* DF = load_euro500_data()
Load ==
    /\ pc = "boot"
    /\ DF' = load_euro500_data(raw)
    /\ DF_columns' = LoadColumns
    /\ pc' = "ready"
    /\ UNCHANGED <<raw, uiVars, passVars, viewVars>>

\* d = _with_company_key(DF)
WithCompanyKey ==
    /\ pc = "ready"
    /\ keyed' = _with_company_key(DF)
    /\ DF_columns' = columns_after({_with_company_key_frame(Panel)})
    /\ UNCHANGED <<loadVars, pc, inputVars, outVars, passVars, viewVars>>

\* Outputs that depend on the selection are invalidated when it changes.
Invalidated ==
    /\ dist_col' = "" /\ dist' = <<>> /\ n_companies' = NaN
    /\ index_mcap' = NaN /\ kpi_firms' = NaN

\* The user picks a year (or none) in the year select.
SetYear ==
    /\ pc = "ready"
    /\ \E y \in {r.q_year : r \in Range(DF)} \cup {NaN} :
        /\ y # sel_year
        /\ sel_year' = y
    /\ Invalidated
    /\ quarters_invalidated' = TRUE
    /\ DF_columns' = columns_after({copy(Panel)})
    /\ UNCHANGED <<loadVars, pc, sel_quarter, keyed, passVars, ts_labels, sectorVars,
                   compVars, flowVars, quarter_choices>>

\* The user picks a quarter label (or none) in the quarter selectize.
SetQuarter ==
    /\ pc = "ready"
    /\ \E q \in {r.q_label : r \in Range(DF)} \cup {""} :
        /\ q # sel_quarter
        /\ sel_quarter' = q
    /\ Invalidated
    /\ UNCHANGED <<loadVars, DF_columns, pc, sel_year, keyed, passVars, viewVars>>

\* The user picks one of the choices of the quarter selectize, or clears it.
SetQuarterFromChoices ==
    /\ pc = "ready"
    /\ \E q \in Range(quarter_choices) \cup {""} :
        /\ q # sel_quarter
        /\ sel_quarter' = q
    /\ Invalidated
    /\ UNCHANGED <<loadVars, DF_columns, pc, sel_year, keyed, passVars, viewVars>>

\* _update_quarters, and the quarter selectize taking the choices and the
\* selection it sends.
_update_quarters ==
    /\ pc = "ready"
    /\ quarters_invalidated
    /\ IF sel_year = NaN
       THEN quarter_choices' = <<>> /\ sel_quarter' = ""
       ELSE /\ quarter_choices' = qlabels_of(rows_of_year(DF, sel_year))
            /\ sel_quarter' = default_q_of(rows_of_year(DF, sel_year))
    /\ quarters_invalidated' = FALSE
    /\ Invalidated
    /\ DF_columns' = columns_after({_update_quarters_frame})
    /\ UNCHANGED <<loadVars, pc, sel_year, keyed, passVars, ts_labels, sectorVars,
                   compVars, flowVars>>

Snapshot == filtered(DF, sel_year, sel_quarter)

ShowDistribution(category_col) ==
    /\ pc = "ready"
    /\ dist_col' = category_col
    /\ dist' \in _distribution_counts(Snapshot, category_col)
    /\ n_companies' = _unique_company_count(Snapshot)
    /\ DF_columns' = columns_after({_distribution_counts_frame(filtered_frame),
                                    _with_company_key_frame(filtered_frame)})
    /\ UNCHANGED <<loadVars, pc, inputVars, index_mcap, kpi_firms, keyed, passVars,
                   viewVars>>

_show_hq_distribution_modal == ShowDistribution("hq_country")

_show_sector_distribution_modal == ShowDistribution("sector")

vb_rows ==
    /\ pc = "ready"
    /\ index_mcap' = mcap_sum(Snapshot)
    /\ DF_columns' = columns_after({filtered_frame})
    /\ UNCHANGED <<loadVars, pc, inputVars, dist_col, dist, n_companies, kpi_firms,
                   keyed, passVars, viewVars>>

vb_firms ==
    /\ pc = "ready"
    /\ kpi_firms' = firm_id_nunique(Snapshot)
    /\ DF_columns' = columns_after({filtered_frame})
    /\ UNCHANGED <<loadVars, pc, inputVars, dist_col, dist, n_companies, index_mcap,
                   keyed, passVars, viewVars>>

\* plot_joiner_leaver_time, up to the loop
JoinerLeaverBegin ==
    /\ pc = "ready"
    /\ jl_idx' = 0
    /\ jl_prev_set' = {}
    /\ jl_records' = <<>>
    /\ pc' = IF DF = <<>> \/ _time_series_labels(DF) = <<>> \/ KeyedRows(DF) = <<>>
             THEN "ready" ELSE "jl"
    /\ DF_columns' = columns_after({keyed_panel_frame})
    /\ UNCHANGED <<loadVars, uiVars, ltVars, concVars, viewVars>>

\* plot_joiner_leaver_time, one iteration of the loop over labels
JoinerLeaverStep ==
    /\ pc = "jl"
    /\ LET labels  == _time_series_labels(DF)
           lbl     == labels[jl_idx + 1]
           cur_set == by_q_get(KeyedRows(DF), lbl)
       IN  /\ jl_records' = Append(jl_records,
                                   [label |-> lbl,
                                    count |-> joiners_of(cur_set, jl_prev_set),
                                    leavers |-> leavers_of(cur_set, jl_prev_set)])
           /\ jl_prev_set' = cur_set
           /\ jl_idx' = jl_idx + 1
           /\ pc' = IF jl_idx + 1 = Len(labels) THEN "ready" ELSE "jl"
    /\ UNCHANGED <<loadVars, DF_columns, uiVars, ltVars, concVars, viewVars>>

\* plot_leaver_tenure_time, up to the loop
LeaverTenureBegin ==
    /\ pc = "ready"
    /\ lt_idx' = 0
    /\ lt_prev_set' = {}
    /\ lt_prev_streak' = <<>>
    /\ lt_tenures' = {}
    /\ lt_records' = <<>>
    /\ pc' = IF DF = <<>> \/ _time_series_labels(DF) = <<>> \/ KeyedRows(DF) = <<>>
             THEN "ready" ELSE "lt"
    /\ DF_columns' = columns_after({keyed_panel_frame})
    /\ UNCHANGED <<loadVars, uiVars, jlVars, concVars, viewVars>>

\* plot_leaver_tenure_time, one iteration of the loop over labels
LeaverTenureStep ==
    /\ pc = "lt"
    /\ LET labels  == _time_series_labels(DF)
           lbl     == labels[lt_idx + 1]
           cur_set == by_q_get(KeyedRows(DF), lbl)
           leavers == lt_prev_set \ cur_set
           tenures == tenures_of(leavers, lt_prev_streak)
       IN  /\ IF lt_idx = 0
              THEN /\ lt_records' = Append(lt_records,
                                           [label |-> lbl,
                                            avg_tenure_q |-> [num |-> 0, den |-> 1],
                                            n_leavers |-> 0])
                   /\ lt_prev_streak' = [k \in cur_set |-> 1]
                   /\ lt_tenures' = lt_tenures
              ELSE /\ lt_records' = Append(lt_records,
                                           [label |-> lbl,
                                            avg_tenure_q |-> mean_of(tenures),
                                            n_leavers |-> Cardinality(leavers)])
                   /\ lt_prev_streak' = cur_streak_of(cur_set, lt_prev_set, lt_prev_streak)
                   /\ lt_tenures' = tenures
           /\ lt_prev_set' = cur_set
           /\ lt_idx' = lt_idx + 1
           /\ pc' = IF lt_idx + 1 = Len(labels) THEN "ready" ELSE "lt"
    /\ UNCHANGED <<loadVars, DF_columns, uiVars, jlVars, concVars, viewVars>>

plot_concentration_topn_time ==
    /\ pc = "ready"
    /\ topn_records' = topn_records_of(DF)
    /\ rendered' = rendered \cup {"topn"}
    /\ DF_columns' = columns_after({cap_panel_frame})
    /\ UNCHANGED <<loadVars, pc, uiVars, jlVars, ltVars, hhi_records, viewVars>>

plot_concentration_hhi_time ==
    /\ pc = "ready"
    /\ hhi_records' = hhi_records_of(DF)
    /\ rendered' = rendered \cup {"hhi"}
    /\ DF_columns' = columns_after({cap_panel_frame})
    /\ UNCHANGED <<loadVars, pc, uiVars, jlVars, ltVars, topn_records, viewVars>>

\* label_col, labels = _time_series_labels(d), d being a copy of DF
TimeSeriesLabels ==
    /\ pc = "ready"
    /\ ts_labels' = [drawn |-> TRUE, label_col |-> "q_label",
                     labels |-> _time_series_labels(DF)]
    /\ DF_columns' = columns_after({copy(Panel)})
    /\ UNCHANGED <<loadVars, pc, uiVars, passVars, sectorVars, compVars, flowVars,
                   quarterVars>>

\* The plots of the company page are drawn again when their inputs change.
CompanyInvalidated ==
    /\ company_mcap' = NoFigure /\ company_rank' = NoFigure
    /\ company_best_rank' = NoFigure

\* _companies_master: d = _with_company_key(DF); d["_company_key"] = ...;
\* d = d.loc[...].copy(); d["_sort_date"] = ...; d["_display_name"] = ...
_companies_master_frame ==
    setitem(setitem(copy(setitem(_with_company_key_frame(Panel), "_company_key")),
                    "_sort_date"), "_display_name")

\* _toggle_company; main_panel then creates the search box and the selectize
\* of the company page anew, both empty.
_toggle_company ==
    /\ pc = "ready"
    /\ page' = IF page = "company" THEN "main" ELSE "company"
    /\ IF page' = "company"
       THEN company_search' = <<>> /\ company_choice' = <<>> /\ choices' = <<>>
       ELSE UNCHANGED <<company_search, company_choice, choices>>
    /\ CompanyInvalidated
    /\ UNCHANGED <<loadVars, DF_columns, pc, uiVars, passVars, ts_labels, sectorVars,
                   flowVars, quarterVars>>

\* The user types in the search box; _update_company_choices runs.
SetCompanySearch(queries) ==
    /\ pc = "ready" /\ page = "company"
    /\ \E q \in queries :
        /\ q # company_search
        /\ company_search' = q
        /\ choices' = _update_company_choices_of(DF, q, company_choice).choices
        /\ company_choice' = _update_company_choices_of(DF, q, company_choice).selected
    /\ CompanyInvalidated
    /\ DF_columns' = columns_after({_companies_master_frame})
    /\ UNCHANGED <<loadVars, pc, uiVars, passVars, ts_labels, sectorVars, page,
                   flowVars, quarterVars>>

\* The user picks one of the choices; _update_company_choices runs.
ChooseCompany ==
    /\ pc = "ready" /\ page = "company"
    /\ \E i \in DOMAIN choices :
        /\ choices[i].value # company_choice
        /\ choices' = _update_company_choices_of(DF, company_search, choices[i].value).choices
        /\ company_choice' =
                _update_company_choices_of(DF, company_search, choices[i].value).selected
    /\ CompanyInvalidated
    /\ DF_columns' = columns_after({_companies_master_frame})
    /\ UNCHANGED <<loadVars, pc, uiVars, passVars, ts_labels, sectorVars, page,
                   company_search, flowVars, quarterVars>>

plot_company_mcap ==
    /\ pc = "ready"
    /\ company_mcap' = plot_company_mcap_of(DF, page, company_choice)
    /\ DF_columns' = columns_after({copy(Panel), copy(copy(_with_company_key_frame(Panel)))})
    /\ UNCHANGED <<loadVars, pc, uiVars, passVars, ts_labels, sectorVars, page,
                   company_search, company_choice, choices, company_rank,
                   company_best_rank, flowVars, quarterVars>>

plot_company_rank ==
    /\ pc = "ready"
    /\ company_rank' = plot_company_rank_of(DF, page, company_choice)
    /\ DF_columns' =
            columns_after({copy(Panel),
                           setitem(copy(copy(_with_company_key_frame(Panel))), "_rank_num")})
    /\ UNCHANGED <<loadVars, pc, uiVars, passVars, ts_labels, sectorVars, page,
                   company_search, company_choice, choices, company_mcap,
                   company_best_rank, flowVars, quarterVars>>

vb_company_best_rank ==
    /\ pc = "ready"
    /\ company_best_rank' = vb_company_best_rank_of(DF, company_choice)
    /\ DF_columns' = columns_after({_with_company_key_frame(Panel)})
    /\ UNCHANGED <<loadVars, pc, uiVars, passVars, ts_labels, sectorVars, page,
                   company_search, company_choice, choices, company_mcap, company_rank,
                   flowVars, quarterVars>>

_toggle_view ==
    /\ pc = "ready"
    /\ show_time' = ~show_time
    /\ UNCHANGED <<loadVars, DF_columns, pc, uiVars, passVars, ts_labels, sectorVars,
                   compVars, pending_company_key, pending_company_label, quarterVars>>

\* _go_home; main_panel renders the main dashboard.
_go_home ==
    /\ pc = "ready"
    /\ page' = "main"
    /\ show_time' = FALSE
    /\ IF page = "company" THEN CompanyInvalidated
       ELSE UNCHANGED <<company_mcap, company_rank, company_best_rank>>
    /\ UNCHANGED <<loadVars, DF_columns, pc, uiVars, passVars, ts_labels, sectorVars,
                   company_search, company_choice, choices, pending_company_key,
                   pending_company_label, quarterVars>>

\* _go_home_sidebar: the button is there to press when back_to_main_btn
\* renders it.
_go_home_sidebar ==
    /\ pc = "ready"
    /\ back_to_main_btn
    /\ page' = "main"
    /\ show_time' = FALSE
    /\ IF page = "company" THEN CompanyInvalidated
       ELSE UNCHANGED <<company_mcap, company_rank, company_best_rank>>
    /\ UNCHANGED <<loadVars, DF_columns, pc, uiVars, passVars, ts_labels, sectorVars,
                   company_search, company_choice, choices, pending_company_key,
                   pending_company_label, quarterVars>>

\* The user clicks a row of the constituents table; main_panel then creates
\* the search box and the selectize of the company page anew, both empty, and
\* the effects that read page run before any other input is handled.
_open_company_from_table_click ==
    /\ pc = "ready"
    /\ page = "main"
    /\ \E kr \in Range(_with_company_key(Snapshot)) :
        /\ click_key(kr) # <<>>
        /\ pending_company_key' = click_key(kr)
        /\ pending_company_label' = click_label(kr)
    /\ show_time' = FALSE
    /\ page' = "company"
    /\ company_search' = <<>> /\ company_choice' = <<>> /\ choices' = <<>>
    /\ CompanyInvalidated
    /\ pc' = "click"
    /\ DF_columns' = columns_after({_constituents_table_data_frame})
    /\ UNCHANGED <<loadVars, uiVars, passVars, ts_labels, sectorVars, quarterVars>>

\* _apply_pending_company_selection, and the search box and the selectize
\* taking what it sends them; the new search text makes
\* _update_company_choices run next.
_apply_pending_company_selection ==
    /\ pc \in {"ready", "click"}
    /\ page = "company"
    /\ strip(pending_company_key) # <<>>
    /\ LET key   == strip(pending_company_key)
           label == IF strip(pending_company_label) # <<>>
                    THEN strip(pending_company_label) ELSE key
       IN  /\ company_search' = label
           /\ choices' = <<[value |-> key, label |-> label]>>
           /\ company_choice' = key
    /\ pending_company_key' = pending_after_apply
    /\ pending_company_label' = <<>>
    /\ CompanyInvalidated
    /\ pc' = "search"
    /\ UNCHANGED <<loadVars, DF_columns, uiVars, passVars, ts_labels, sectorVars, page,
                   show_time, quarterVars>>

\* _update_company_choices, run for the search text _apply_pending_company_selection
\* has set.
_update_company_choices ==
    /\ pc = "search"
    /\ IF page # "company"
       THEN UNCHANGED <<choices, company_choice>>
       ELSE /\ choices' = _update_company_choices_of(DF, company_search, company_choice).choices
            /\ company_choice' =
                    _update_company_choices_of(DF, company_search, company_choice).selected
    /\ CompanyInvalidated
    /\ pc' = "ready"
    /\ DF_columns' = columns_after({_companies_master_frame})
    /\ UNCHANGED <<loadVars, uiVars, passVars, ts_labels, sectorVars, page,
                   company_search, flowVars, quarterVars>>

plot_top5_sectors ==
    /\ pc = "ready"
    /\ top5_cap' \in plot_top5_sectors_of(DF)
    /\ DF_columns' = columns_after({copy(Panel)})
    /\ UNCHANGED <<loadVars, pc, uiVars, passVars, ts_labels, top5_eqw, compVars,
                   flowVars, quarterVars>>

plot_top5_sectors_eqw ==
    /\ pc = "ready"
    /\ top5_eqw' \in plot_top5_sectors_eqw_of(DF)
    /\ DF_columns' = columns_after({keyed_panel_frame})
    /\ UNCHANGED <<loadVars, pc, uiVars, passVars, ts_labels, top5_cap, compVars,
                   flowVars, quarterVars>>

InitLoad == Boot(LoadTables)

NextLoad == Load

SpecLoad == InitLoad /\ [][NextLoad]_vars

InitLabels == Boot(LoadTables)

NextLabels == Load \/ TimeSeriesLabels

SpecLabels == InitLabels /\ [][NextLabels]_vars

InitCompany == Boot(CompanyTables)

NextCompany ==
    \/ Load
    \/ _toggle_company
    \/ SetCompanySearch(CompanyQueries)
    \/ ChooseCompany
    \/ plot_company_mcap
    \/ plot_company_rank
    \/ vb_company_best_rank

SpecCompany == InitCompany /\ [][NextCompany]_vars

InitRows == Boot(RowsTables)

NextRows ==
    \/ Load
    \/ _toggle_company
    \/ SetCompanySearch(RowsQueries)
    \/ plot_company_mcap
    \/ plot_company_rank

SpecRows == InitRows /\ [][NextRows]_vars

InitQuarters == Boot(QuarterTables)

NextQuarters ==
    \/ Load
    \/ SetYear
    \/ SetQuarterFromChoices
    \/ _update_quarters

SpecQuarters == InitQuarters /\ [][NextQuarters]_vars

\* _update_quarters runs once input.year() has invalidated it.
SpecQuartersLive == SpecQuarters /\ WF_vars(_update_quarters)

InitNav == Boot(NavTables)

NextNav ==
    \/ Load
    \/ SetQuarter
    \/ _toggle_view
    \/ _go_home
    \/ _go_home_sidebar
    \/ _toggle_company
    \/ SetCompanySearch(NavQueries)
    \/ _open_company_from_table_click
    \/ _apply_pending_company_selection
    \/ _update_company_choices

SpecNav == InitNav /\ [][NextNav]_vars

\* The step of NextNav that leaves pc = "search": only _update_company_choices
\* takes it, and it can be taken in every state with pc = "search".
UpdateChoicesRuns == pc = "search" /\ pc' = "ready"

\* The effects run once they are invalidated.
SpecNavLive ==
    /\ SpecNav
    /\ WF_vars(_apply_pending_company_selection)
    /\ WF_pc(UpdateChoicesRuns)

InitSearch == Boot(SearchTables)

NextSearch == Load \/ _toggle_company \/ SetCompanySearch(SearchQueries)

SpecSearch == InitSearch /\ [][NextSearch]_vars

InitSectors == Boot(SectorTables)

NextSectors == Load \/ plot_top5_sectors \/ plot_top5_sectors_eqw

SpecSectors == InitSectors /\ [][NextSectors]_vars

\* A whole session. Left out are three handlers that work on the same frames
\* as one that is in: _show_sector_distribution_modal, vb_firms and
\* plot_concentration_hhi_time (see SpecDist and SpecHhi).
InitPanel == Boot(PanelTables)

NextPanel ==
    \/ Load
    \/ SetYear
    \/ SetQuarter
    \/ _show_hq_distribution_modal
    \/ vb_rows
    \/ WithCompanyKey
    \/ JoinerLeaverBegin
    \/ JoinerLeaverStep
    \/ LeaverTenureBegin
    \/ LeaverTenureStep
    \/ plot_concentration_topn_time
    \/ TimeSeriesLabels
    \/ plot_top5_sectors
    \/ plot_top5_sectors_eqw
    \/ _toggle_company
    \/ SetCompanySearch(PanelQueries)
    \/ ChooseCompany
    \/ plot_company_mcap
    \/ plot_company_rank

SpecPanel == InitPanel /\ [][NextPanel]_vars

InitKey == Boot(KeyTables)

NextKey == Load \/ WithCompanyKey

SpecKey == InitKey /\ [][NextKey]_vars

InitJoiners == Boot(TurnoverTables)

NextJoiners == Load \/ JoinerLeaverBegin \/ JoinerLeaverStep

SpecJoiners == InitJoiners /\ [][NextJoiners]_vars

InitTurnover == Boot(PassTables)

NextTurnover ==
    \/ Load
    \/ JoinerLeaverBegin
    \/ JoinerLeaverStep
    \/ LeaverTenureBegin
    \/ LeaverTenureStep

SpecTurnover == InitTurnover /\ [][NextTurnover]_vars

InitTenure == Boot(TurnoverTables)

NextTenure == Load \/ LeaverTenureBegin \/ LeaverTenureStep

SpecTenure == InitTenure /\ [][NextTenure]_vars

InitDist == Boot(DistTables)

NextDist ==
    \/ Load
    \/ SetYear
    \/ SetQuarter
    \/ _show_hq_distribution_modal
    \/ _show_sector_distribution_modal
    \/ vb_rows
    \/ vb_firms

SpecDist == InitDist /\ [][NextDist]_vars

InitConc == Boot(ConcTables)

NextConc == Load \/ plot_concentration_topn_time

SpecConc == InitConc /\ [][NextConc]_vars

InitHhi == Boot(HhiTables)

NextHhi == Load \/ plot_concentration_hhi_time

SpecHhi == InitHhi /\ [][NextHhi]_vars

-----------------------------------------------------------------------------
(* Quarter labels *)

\* C1: every loaded row carries the label its date alone determines: month 12
\* is quarter 1 of the next year; months 3, 6, 9 are quarters 2, 3, 4 of the
\* same year; any other month m is quarter (m-1) div 3 + 1 of the same year;
\* the label is the fiscal year, "Q", the fiscal quarter.
C1_QuarterLabel ==
    pc = "ready" =>
        \A i \in DOMAIN DF :
            LET r == DF[i]
                m == r.date.m
                y == r.date.y
                fq == CASE m = 12 -> 1
                        [] m = 3 -> 2
                        [] m = 6 -> 3
                        [] m = 9 -> 4
                        [] OTHER -> ((m - 1) \div 3) + 1
                fy == IF m = 12 THEN y + 1 ELSE y
            IN  /\ m \in 1..12
                /\ r.q_num = fq
                /\ r.q_year = fy
                /\ r.q_label = ToString(fy) \o "Q" \o ToString(fq)
                /\ (y = 2019 /\ m = 12) => r.q_label = "2020Q1"
                /\ (y = 2020 /\ m = 3) => r.q_label = "2020Q2"
                /\ (y = 2020 /\ m = 2) => r.q_label = "2020Q1"

C1_Witness ==
    /\ pc = "ready"
    /\ \E i, j \in DOMAIN DF :
        /\ DF[i].date.m = 12 /\ DF[i].q_label = "2020Q1"
        /\ DF[j].date.m = 11 /\ DF[j].q_label = "2020Q4"

-----------------------------------------------------------------------------
(* Company key *)

Blank(cell) == cell = NA \/ strip(cell) = <<>>

\* C4: the key of a row is its trimmed firm_id if that is non-empty, otherwise
\* its trimmed isin if that is non-empty, otherwise a key built from name and
\* hq_code; two rows with the same non-empty firm_id have the same key,
\* whatever their isin, name, hq_code and quarter.
C4_KeyPriority ==
    /\ \A i \in DOMAIN keyed :
        LET r == keyed[i].row
            k == keyed[i].company_key
        IN  /\ ~Blank(r.firm_id) => k = strip(r.firm_id)
            /\ (Blank(r.firm_id) /\ ~Blank(r.isin)) => k = strip(r.isin)
            /\ (Blank(r.firm_id) /\ Blank(r.isin) /\ ~Blank(r.name)) =>
                    k = IF Blank(r.hq_code) THEN strip(r.name)
                        ELSE strip(r.name) \o <<" ", "|", " ">> \o strip(r.hq_code)
    /\ \A i, j \in DOMAIN keyed :
        (/\ ~Blank(keyed[i].row.firm_id)
         /\ strip(keyed[i].row.firm_id) = strip(keyed[j].row.firm_id)) =>
            keyed[i].company_key = keyed[j].company_key

C4_Witness ==
    \E i, j \in DOMAIN keyed :
        /\ keyed[i].row.firm_id = <<"A">> /\ keyed[j].row.firm_id = <<" ", "A">>
        /\ keyed[i].row.isin # keyed[j].row.isin
        /\ keyed[i].row.name # keyed[j].row.name
        /\ keyed[i].row.hq_code # keyed[j].row.hq_code
        /\ keyed[i].row.q_label # keyed[j].row.q_label
        /\ keyed[i].company_key = <<"A">> /\ keyed[j].company_key = <<"A">>

\* C5: a row whose firm_id, isin and name are all empty (missing, or blank
\* after trimming) has the empty key, whatever its hq_code is.
C5_EmptyInputsEmptyKey ==
    \A i \in DOMAIN keyed :
        LET r == keyed[i].row
        IN  (Blank(r.firm_id) /\ Blank(r.isin) /\ Blank(r.name)) =>
                keyed[i].company_key = <<>>

-----------------------------------------------------------------------------
(* Joiners, leavers and leaver tenure *)

\* The non-empty keys of the rows of the panel that carry label lbl.
KeysIn(lbl) ==
    {clean_key(company_key(r)) : r \in {x \in Range(DF) : x.q_label = lbl}} \ {<<>>}

Labels == _time_series_labels(DF)

\* C2: the record of the first quarter reports 0 joiners and 0 leavers; the
\* record of every later quarter reports |S_cur \ S_prev| joiners and
\* |S_prev \ S_cur| leavers, S_q being the non-empty keys present in quarter q.
C2_JoinersLeavers ==
    \A i \in DOMAIN jl_records :
        LET rec == jl_records[i]
        IN  /\ rec.label = Labels[i]
            /\ IF i = 1
               THEN rec.count = 0 /\ rec.leavers = 0
               ELSE /\ rec.count = Cardinality(KeysIn(Labels[i]) \ KeysIn(Labels[i - 1]))
                    /\ rec.leavers = Cardinality(KeysIn(Labels[i - 1]) \ KeysIn(Labels[i]))

\* The number of consecutive quarters, ending with the j-th, in which k is present.
RECURSIVE RunLength(_, _)
RunLength(k, j) ==
    IF j = 0 \/ k \notin KeysIn(Labels[j]) THEN 0 ELSE 1 + RunLength(k, j - 1)

\* C3: at every transition the tenures read are those of exactly the leavers,
\* and the tenure of a leaver is the number of consecutive quarters, ending
\* with the quarter just before it left, in which it was present; it is at
\* least 1, and membership before an earlier exit does not count.
C3_TenureAtDeparture ==
    IF lt_idx < 2
    THEN lt_tenures = {}
    ELSE /\ {p[1] : p \in lt_tenures} = KeysIn(Labels[lt_idx - 1]) \ KeysIn(Labels[lt_idx])
         /\ \A p \in lt_tenures : p[2] = RunLength(p[1], lt_idx - 1) /\ p[2] >= 1

\* A leaver that had left before and come back: only the second stay counts.
C3_Witness ==
    /\ lt_idx = 4
    /\ \E p \in lt_tenures :
        /\ p[2] = 1
        /\ p[1] \in KeysIn(Labels[1])
        /\ p[1] \notin KeysIn(Labels[2])
        /\ p[1] \in KeysIn(Labels[3])

-----------------------------------------------------------------------------
(* Category distribution *)

SnapshotKeys == {clean_key(company_key(r)) : r \in Range(Snapshot)} \ {<<>>}

\* The category of a row: "(Missing)" for a missing or blank cell.
CategoryLabel(r, col) == IF Blank(r[col]) THEN missing_label ELSE strip(r[col])

KeysOfCategory(cat, col) ==
    {clean_key(company_key(r)) :
        r \in {x \in Range(Snapshot) : CategoryLabel(x, col) = cat}} \ {<<>>}

\* C6: the distribution has one row per category that an identifiable entity
\* of the snapshot has, "(Missing)" standing for a missing or blank value; its
\* n_companies is the number of distinct keys in the category, and its
\* share_pct is 100 * n_companies / (number of distinct keys in the snapshot).
C6_DistributionShares ==
    dist_col # "" =>
        /\ {dist[i].category : i \in DOMAIN dist} =
                {c \in {CategoryLabel(r, dist_col) : r \in Range(Snapshot)} :
                    KeysOfCategory(c, dist_col) # {}}
        /\ \A i \in DOMAIN dist :
            LET n == Cardinality(KeysOfCategory(dist[i].category, dist_col))
            IN  /\ dist[i].n_companies = n
                /\ dist[i].share_pct.num * Cardinality(SnapshotKeys) =
                        100 * n * dist[i].share_pct.den

\* C7: when the snapshot has an identifiable entity, the distribution is not
\* empty and its share_pct values, "(Missing)" included, sum to 100.
C7_SharesSumTo100 ==
    (dist_col # "" /\ SnapshotKeys # {}) =>
        /\ dist # <<>>
        /\ \A i \in DOMAIN dist : dist[i].share_pct.den = dist[1].share_pct.den
        /\ dist[1].share_pct.den > 0
        /\ SumSeq(SeqMap(LAMBDA row : row.share_pct.num, dist)) =
                100 * dist[1].share_pct.den

\* A company in two categories, and a "(Missing)" bucket beside a populated one.
C7_Witness ==
    /\ dist_col = "sector"
    /\ Len(dist) = 3
    /\ \E i \in DOMAIN dist : dist[i].category = missing_label
    /\ \E i, j \in DOMAIN dist :
        /\ i # j
        /\ KeysOfCategory(dist[i].category, dist_col) \cap
                KeysOfCategory(dist[j].category, dist_col) # {}

\* A row without firm_id, isin and name: its EntityKey is empty.
Unidentifiable(r) == Blank(r.firm_id) /\ Blank(r.isin) /\ Blank(r.name)

Identified == SelectSeq(Snapshot, LAMBDA r : ~Unidentifiable(r))

\* C10: the rows with an empty EntityKey do not count in the entity counts of
\* a snapshot (distribution counts, unique-company counts): these are what
\* they are without those rows; the index market cap includes their caps.
C10_EmptyKeyRowsExcluded ==
    /\ dist_col # "" =>
        /\ Range(dist) = distribution_rows(Identified, dist_col)
        /\ n_companies = _unique_company_count(Identified)
    /\ kpi_firms # NaN => kpi_firms = firm_id_nunique(Identified)
    /\ index_mcap # NaN =>
        index_mcap = mcap_sum(Identified) + mcap_sum(SelectSeq(Snapshot, Unidentifiable))

-----------------------------------------------------------------------------
(* Concentration *)

CapRowsOf(k, lbl) ==
    {r \in Range(DF) :
        r.q_label = lbl /\ clean_key(company_key(r)) = k /\ r.mcap_eur # NaN}

\* The entities of quarter lbl that have a valid cap there.
CapEntities(lbl) == {k \in KeysIn(lbl) : CapRowsOf(k, lbl) # {}}

\* The one cap of an entity in a quarter: the largest over its rows.
EntityCap(k, lbl) ==
    CHOOSE c \in {r.mcap_eur : r \in CapRowsOf(k, lbl)} :
        \A r \in CapRowsOf(k, lbl) : r.mcap_eur <= c

RECURSIVE CapSum(_, _)
CapSum(E, lbl) ==
    IF E = {} THEN 0
    ELSE LET k == CHOOSE z \in E : TRUE IN EntityCap(k, lbl) + CapSum(E \ {k}, lbl)

RECURSIVE CapSquares(_, _)
CapSquares(E, lbl) ==
    IF E = {} THEN 0
    ELSE LET k == CHOOSE z \in E : TRUE
         IN  EntityCap(k, lbl) * EntityCap(k, lbl) + CapSquares(E \ {k}, lbl)

\* The sum of the n largest caps of quarter lbl: with t the n-th largest cap,
\* the caps above t and as many times t as are left to make n.
TopSum(lbl, n) ==
    LET E == CapEntities(lbl)
        Above(t) == {k \in E : EntityCap(k, lbl) > t}
        AtLeast(t) == {k \in E : EntityCap(k, lbl) >= t}
    IN  IF Cardinality(E) <= n THEN CapSum(E, lbl)
        ELSE LET t == CHOOSE x \in {EntityCap(k, lbl) : k \in E} :
                        Cardinality(Above(x)) < n /\ Cardinality(AtLeast(x)) >= n
             IN  CapSum(Above(t), lbl) + (n - Cardinality(Above(t))) * t

\* share = 100 * top / total, and 0 when total is 0.
ShareIs(share, top, total) ==
    /\ share.den > 0
    /\ IF total = 0 THEN share.num = 0 ELSE share.num * total = 100 * top * share.den

NoCapData == \A lbl \in Range(Labels) : CapEntities(lbl) = {}

-----------------------------------------------------------------------------
(* Rows rejected by the load *)

\* The rows of the table read whose date can be parsed.
ValidRaw == SelectSeq(raw, LAMBDA r : r.date.kind = "date")

\* C17: the panel holds, in their order, exactly the rows of the table whose
\* date can be parsed; each is what loading that row alone gives (its fields
\* as read, its date, and the label of that date), whatever the other rows are.
C17_BadDatesDropped ==
    pc = "ready" =>
        /\ Len(DF) = Len(ValidRaw)
        /\ \A i \in DOMAIN DF :
            /\ DF[i] = load_euro500_data(<<ValidRaw[i]>>)[1]
            /\ DF[i].date = [y |-> ValidRaw[i].date.y, m |-> ValidRaw[i].date.m]
            /\ DF[i].firm_id = ValidRaw[i].firm_id
            /\ DF[i].q_year = DF[i].date.y + (IF DF[i].date.m = 12 THEN 1 ELSE 0)

\* A row with an unparseable date before a row with a valid one.
C17_Witness ==
    /\ pc = "ready"
    /\ Len(raw) = 2 /\ raw[1].date.kind = "text" /\ raw[2].date.kind = "date"
    /\ Len(DF) = 1 /\ DF[1].date.m = raw[2].date.m /\ DF[1].q_label = "2020Q1"

-----------------------------------------------------------------------------
(* The list of quarter labels *)

\* The fiscal year and fiscal quarter of the rows that carry label lbl.
QuarterOf(lbl) ==
    CHOOSE t \in {<<r.q_year, r.q_num>> : r \in {x \in Range(DF) : x.q_label = lbl}} : TRUE

\* C14: the labels returned are exactly the labels that occur in the panel,
\* none twice, in strictly increasing order of (fiscal year, fiscal quarter).
C14_LabelsSortedUnique ==
    ts_labels.drawn =>
        LET L == ts_labels.labels
        IN  /\ Range(L) = {r.q_label : r \in Range(DF)}
            /\ \A i, j \in DOMAIN L :
                i < j =>
                    /\ L[i] # L[j]
                    /\ \/ QuarterOf(L[i])[1] < QuarterOf(L[j])[1]
                       \/ /\ QuarterOf(L[i])[1] = QuarterOf(L[j])[1]
                          /\ QuarterOf(L[i])[2] < QuarterOf(L[j])[2]

\* Rows out of order in the table, the later one in quarter 1 of the next year.
C14_Witness ==
    /\ ts_labels.drawn
    /\ Len(DF) = 2 /\ DF[1].q_label = "2020Q1" /\ DF[2].q_label = "2019Q4"
    /\ ts_labels.labels = <<"2019Q4", "2020Q1">>

-----------------------------------------------------------------------------
(* Average leaver tenure *)

RECURSIVE RunLengthSum(_, _)
RunLengthSum(K, j) ==
    IF K = {} THEN 0
    ELSE LET k == CHOOSE z \in K : TRUE IN RunLength(k, j) + RunLengthSum(K \ {k}, j)

\* C18: the record of a quarter reports as n_leavers the number of entities
\* present in the previous quarter and not in this one, and as avg_tenure_q
\* the sum of their tenures at departure divided by that number; both are 0
\* when there is no leaver, as in the first quarter.
C18_AverageLeaverTenure ==
    \A i \in DOMAIN lt_records :
        LET rec     == lt_records[i]
            leavers == IF i = 1 THEN {}
                       ELSE KeysIn(Labels[i - 1]) \ KeysIn(Labels[i])
        IN  /\ rec.label = Labels[i]
            /\ rec.n_leavers = Cardinality(leavers)
            /\ rec.avg_tenure_q.den > 0
            /\ IF leavers = {} THEN rec.avg_tenure_q.num = 0
               ELSE rec.avg_tenure_q.num * Cardinality(leavers) =
                        RunLengthSum(leavers, i - 1) * rec.avg_tenure_q.den

\* Two leavers in one quarter whose tenures differ: the mean is not a whole number.
C18_Witness ==
    \E i \in DOMAIN lt_records :
        /\ lt_records[i].n_leavers = 2
        /\ lt_records[i].avg_tenure_q.den = 2
        /\ lt_records[i].avg_tenure_q.num = 5

-----------------------------------------------------------------------------
(* The filter *)

\* The number of times row x occurs in d.
Count(d, x) == Cardinality({i \in DOMAIN d : d[i] = x})

SameRows(d, e) == \A x \in Range(d) \cup Range(e) : Count(d, x) = Count(e, x)

YearRows == SelectSeq(DF, LAMBDA r : r.q_year = sel_year)

\* The chronologically latest label among the rows of the selected year.
LatestLabelOfYear ==
    CHOOSE l \in {r.q_label : r \in Range(YearRows)} :
        \A r \in Range(YearRows) : r.q_num <= QuarterOf(l)[2]

\* C12: with a year selected, the snapshot holds only rows of that fiscal
\* year; with a quarter label selected, exactly the rows of the year that
\* carry it (none if there is none); with no quarter selected, exactly the
\* rows of the latest label of the year; its rows all carry the same label.
C12_Filter ==
    (pc = "ready" /\ sel_year # NaN) =>
        /\ \A r \in Range(Snapshot) : r.q_year = sel_year
        /\ sel_quarter # "" =>
                SameRows(Snapshot, SelectSeq(YearRows, LAMBDA r : r.q_label = sel_quarter))
        /\ (sel_quarter = "" /\ YearRows # <<>>) =>
                SameRows(Snapshot, SelectSeq(YearRows, LAMBDA r : r.q_label = LatestLabelOfYear))
        /\ (sel_quarter = "" /\ YearRows = <<>>) => Snapshot = <<>>
        /\ \A r1, r2 \in Range(Snapshot) : r1.q_label = r2.q_label

\* A year with two quarters and no quarter selected: the later one is shown.
C12_Witness ==
    /\ pc = "ready" /\ sel_year = 2020 /\ sel_quarter = ""
    /\ {r.q_label : r \in Range(YearRows)} = {"2020Q1", "2020Q2"}
    /\ Snapshot # <<>>
    /\ \A r \in Range(Snapshot) : r.q_label = "2020Q2"
    /\ index_mcap # NaN

-----------------------------------------------------------------------------
(* The time series of a company *)

\* The rows of the panel that belong to the company chosen and carry label lbl.
ChosenRows(lbl) ==
    {r \in Range(DF) : r.q_label = lbl /\ company_key(r) = strip(company_choice)}

Shown(fig) == fig.drawn /\ ~fig.empty

-----------------------------------------------------------------------------
(* The company search *)

Query == upper(strip(company_search))

Entities == _companies_master(DF)

\* The query occurs in the searchable text of entity e: its key, display
\* name, firm_id and isin, one after the other.
Matches(e) ==
    contains(upper(e._company_key) \o <<" ">> \o upper(e._display_name) \o <<" ">> \o
             upper(e._firm_id) \o <<" ">> \o upper(e._isin), Query)

Fields(e) ==
    {upper(e._company_key), upper(e._firm_id), upper(e._isin), upper(e._display_name)}

\* 0 for an exact match of a field, 1 for a prefix match only, 2 otherwise.
MatchClass(e) ==
    IF Query \in Fields(e) THEN 0
    ELSE IF \E f \in Fields(e) : startswith(f, Query) THEN 1
    ELSE 2

\* What the ranking looks at: the class, the display name and the key.
RankKey(e) ==
    [class |-> MatchClass(e), name |-> upper(e._display_name), key |-> e._company_key]

\* a comes before b in the ranking: by class, then display name, then key.
RankedBefore(a, b) ==
    \/ a.class < b.class
    \/ a.class = b.class /\ StrCmp(a.name, b.name) < 0
    \/ a.class = b.class /\ StrCmp(a.name, b.name) = 0 /\ StrCmp(a.key, b.key) < 0

ChoiceKeys == {choices[i].value : i \in DOMAIN choices}

\* C13: the choices are at most 50 entities, each once, each matching the
\* query whatever the case of the letters; they come ranked (exact matches,
\* then prefix matches, then substring matches; by display name, then by key,
\* within a class); no matching entity left out ranks before one that is
\* listed, and none is left out while there are fewer than 50; X1 comes
\* before X10 for the query "x1".
C13_SearchRanking ==
    (page = "company" /\ Query # <<>>) =>
        LET entities == Entities
            listed   == [i \in DOMAIN choices |->
                            CHOOSE e \in entities : e._company_key = choices[i].value]
            rk       == [i \in DOMAIN choices |-> RankKey(listed[i])]
            left_out == {RankKey(e) :
                            e \in {x \in entities :
                                    Matches(x) /\ x._company_key \notin ChoiceKeys}}
        IN  /\ Len(choices) <= 50
            /\ ChoiceKeys \subseteq {e._company_key : e \in entities}
            /\ \A i \in DOMAIN choices :
                /\ Matches(listed[i])
                /\ choices[i].label = listed[i]._display_name
            /\ \A i, j \in DOMAIN choices : i < j => RankedBefore(rk[i], rk[j])
            /\ left_out # {} =>
                /\ Len(choices) = 50
                /\ \A e \in left_out : RankedBefore(rk[50], e)
            /\ (Query = <<"X", "1">> /\ {<<"X", "1">>, <<"X", "1", "0">>} \subseteq ChoiceKeys) =>
                    \E i, j \in DOMAIN choices :
                        /\ i < j
                        /\ choices[i].value = <<"X", "1">>
                        /\ choices[j].value = <<"X", "1", "0">>

\* The query "x1" where X1, now named "Two", is the exact match, X10 "Acme
\* Two" a prefix match, and "acme" (isin "ex1") and AX1 are substring matches.
C13_Witness ==
    /\ page = "company" /\ Query = <<"X", "1">>
    /\ Len(choices) = 4
    /\ choices[1].value = <<"X", "1">> /\ choices[1].label = <<"T", "w", "o">>
    /\ choices[2].value = <<"X", "1", "0">>
    /\ choices[3].value = <<"e", "x", "1">>
    /\ choices[4].value = <<"A", "X", "1">>

\* More than 50 entities match: the list is cut at 50.
C13_WitnessLimit ==
    /\ page = "company" /\ Query = <<"E">>
    /\ Len(choices) = 50
    /\ \E e \in Entities : Matches(e) /\ e._company_key \notin ChoiceKeys

-----------------------------------------------------------------------------
(* The top 5 sectors *)

\* The identifiable entities of the panel that have a row in sector c.
EntitiesOfSector(c) ==
    {clean_key(company_key(r)) : r \in {x \in Range(DF) : x.sector = c}} \ {<<>>}

SectorCap(c) == mcap_sum(SelectSeq(DF, LAMBDA r : r.sector = c))

PanelSectors == {r.sector : r \in Range(DF)} \ {NA}

\* T holds the five categories of cats for which f is largest (all of them
\* when there are fewer than five).
FiveLargest(T, cats, f) ==
    /\ T \subseteq cats
    /\ Cardinality(T) = IF Cardinality(cats) < 5 THEN Cardinality(cats) ELSE 5
    /\ \A c \in T : \A o \in cats \ T : f[c] >= f[o]

\* The panel with every market cap taken out.
WithoutCaps == [i \in DOMAIN DF |-> [DF[i] EXCEPT !.mcap_eur = NaN]]

\* C15: the equal-weighted top 5 are the five sectors with the most distinct
\* entities, the cap-weighted top 5 the five sectors with the largest total
\* market cap, and the equal-weighted plot is one the panel gives whatever
\* its market caps are.
C15_Top5OwnCriterion ==
    /\ Shown(top5_eqw) =>
        /\ FiveLargest(top5_eqw.top5, {c \in PanelSectors : EntitiesOfSector(c) # {}},
                       [c \in PanelSectors |-> Cardinality(EntitiesOfSector(c))])
        /\ top5_eqw \in plot_top5_sectors_eqw_of(WithoutCaps)
    /\ Shown(top5_cap) =>
        FiveLargest(top5_cap.top5, PanelSectors, [c \in PanelSectors |-> SectorCap(c)])

\* q is a number: not the NaN or infinity a division by zero leaves.
Defined(q) == q.den > 0

\* C16: no metric yields an undefined value: the shares of the distribution
\* and of both sector plots, the Top 10 and Top 50 shares, the HHI and the
\* average leaver tenure are numbers, and the counts are not negative;
\* without data a metric is empty or 0.
C16_MetricsDefined ==
    /\ \A i \in DOMAIN dist : Defined(dist[i].share_pct)
    /\ Shown(top5_cap) => \A row \in top5_cap.rows : Defined(row.share)
    /\ Shown(top5_eqw) => \A row \in top5_eqw.rows : Defined(row.share)
    /\ \A i \in DOMAIN topn_records : Defined(topn_records[i].share)
    /\ \A i \in DOMAIN hhi_records : Defined(hhi_records[i].hhi)
    /\ \A i \in DOMAIN lt_records :
        Defined(lt_records[i].avg_tenure_q) /\ lt_records[i].n_leavers >= 0
    /\ dist_col # "" => n_companies >= 0
    /\ (pc = "ready" /\ DF = <<>>) =>
        /\ top5_cap.drawn => top5_cap = EmptyFigure
        /\ top5_eqw.drawn => top5_eqw = EmptyFigure
        /\ dist = <<>> /\ topn_records = <<>> /\ hhi_records = <<>> /\ lt_records = <<>>

-----------------------------------------------------------------------------
(* The Panel *)

\* C20: whatever the user has done and whatever has been computed since, the
\* Panel has the rows and values load_euro500_data gave it and the columns it
\* had right after load.
C20_PanelNeverChanges ==
    pc # "boot" => DF = load_euro500_data(raw) /\ DF_columns = LoadColumns

\* A session that filtered, opened a distribution, ran the turnover passes,
\* drew the time series and searched a company, on a Panel with rows.
C20_Witness ==
    /\ DF # <<>>
    /\ sel_year # NaN /\ sel_quarter # ""
    /\ dist # <<>> /\ index_mcap # NaN /\ keyed # <<>>
    /\ jl_records # <<>> /\ lt_records # <<>>
    /\ "topn" \in rendered
    /\ ts_labels.drawn /\ Shown(top5_cap) /\ Shown(top5_eqw)
    /\ company_search # <<>> /\ company_choice # <<>>
    /\ Shown(company_mcap) /\ Shown(company_rank)

-----------------------------------------------------------------------------
(* The turnover passes, quarter by quarter *)

\* The set of entities a pass holds after n labels.
ActiveAfter(n) == IF n = 0 THEN {} ELSE KeysIn(Labels[n])

\* The streaks the tenure pass holds after n labels.
StreaksAfter(n) ==
    IF n = 0 THEN <<>> ELSE [k \in KeysIn(Labels[n]) |-> RunLength(k, n)]

\* The labels of the records are the first labels of the panel, one each, in
\* strictly increasing order of (fiscal year, fiscal quarter).
InLabelOrder(records, n) ==
    /\ Len(records) = n /\ n <= Len(Labels)
    /\ \A i \in DOMAIN records : records[i].label = Labels[i]
    /\ \A i, j \in DOMAIN records :
        i < j =>
            \/ QuarterOf(records[i].label)[1] < QuarterOf(records[j].label)[1]
            \/ /\ QuarterOf(records[i].label)[1] = QuarterOf(records[j].label)[1]
               /\ QuarterOf(records[i].label)[2] < QuarterOf(records[j].label)[2]

-----------------------------------------------------------------------------
(* The rows of a company *)

\* The rows of the panel whose entity key is the chosen one.
RowsOfChoice ==
    SelectSeq(DF, LAMBDA r : company_choice # <<>> /\ clean_key(company_key(r)) = company_choice)

CompanyRows == [i \in DOMAIN _company_df(DF, company_choice) |->
                    _company_df(DF, company_choice)[i].row]

\* C22: on the company page, _company_df holds exactly the rows of the panel
\* whose entity key is the chosen key, none when no key is chosen, ordered by
\* date ascending.
C22_RowsForEntity ==
    page = "company" =>
        /\ SameRows(CompanyRows, RowsOfChoice)
        /\ \A i, j \in DOMAIN CompanyRows :
            i < j => DateLeq(CompanyRows[i].date, CompanyRows[j].date)

-----------------------------------------------------------------------------
(* Ranks that are not positive *)

\* The positive ranks of the rows of the company chosen, in the quarters of L.
PositiveRanks(L) ==
    {x \in {r.rank_mcap : r \in UNION {ChosenRows(lbl) : lbl \in L}} : x # NaN /\ x > 0}

\* v is the smallest of R, or absent when R is empty.
SmallestOrAbsent(v, R) ==
    IF R = {} THEN v = NaN ELSE v \in R /\ \A k \in R : v <= k

\* C23: the rank reported for a quarter is the smallest positive rank of the
\* company's rows of that quarter, and the best rank the smallest positive
\* rank of all its rows; each is absent when there is no positive rank, so a
\* rank that is not positive is never reported.
C23_NonPositiveRankUnranked ==
    /\ Shown(company_rank) =>
        \A i \in DOMAIN Labels :
            SmallestOrAbsent(company_rank.y[i], PositiveRanks({Labels[i]}))
    /\ company_best_rank.drawn =>
        SmallestOrAbsent(company_best_rank.value, PositiveRanks(Range(Labels)))

\* A company with rank 0 in one quarter and two rows, of ranks 2 and 1, in another.
C23_Witness ==
    /\ Shown(company_rank) /\ company_best_rank.drawn
    /\ company_best_rank.value = 1
    /\ \E i, j \in DOMAIN Labels :
        /\ 0 \in {r.rank_mcap : r \in ChosenRows(Labels[i])}
        /\ company_rank.y[i] = NaN
        /\ {r.rank_mcap : r \in ChosenRows(Labels[j])} = {1, 2}
        /\ company_rank.y[j] = 1

-----------------------------------------------------------------------------
(* Navigation *)

\* C28: the "Back to Main Page" button is rendered exactly when main_panel
\* does not show the main dashboard, that is when page = company or show_time
\* holds; pressing it, or the title link, leaves page = main and show_time
\* false.
C28_BackButton ==
    /\ [](back_to_main_btn <=> main_panel # "main")
    /\ [](back_to_main_btn <=> (page = "company" \/ show_time))
    /\ [][(_go_home \/ _go_home_sidebar) => (page' = "main" /\ show_time' = FALSE)]_vars

\* The time variation view, where page = main and the button is rendered.
C28_Witness == page = "main" /\ show_time /\ main_panel = "time" /\ back_to_main_btn

\* C29: _apply_pending_company_selection acts only while page = company and
\* the pending key is not empty, and only on the click that set it; after it
\* has acted the pending key and label are empty, and they stay so until the
\* next click, however often the company page is left and entered.
C29_PendingAppliedOnce ==
    /\ [][_apply_pending_company_selection =>
            /\ pc = "click" /\ page = "company" /\ pending_company_key # <<>>
            /\ pending_company_key' = <<>> /\ pending_company_label' = <<>>]_vars
    /\ [](pc # "click" => pending_company_key = <<>> /\ pending_company_label = <<>>)
    /\ [](pc # "click" => ~ENABLED _apply_pending_company_selection)

\* The selection of a click has just been applied.
C29_Witness ==
    /\ pc = "search" /\ page = "company"
    /\ company_choice = <<"X", "1">> /\ company_search = <<"A", "c", "m", "e">>
    /\ pending_company_key = <<>>

\* C24: a click on a row with a key, on the main page, is followed by
\* page = company with that key as company_choice, and
\* _update_company_choices, run for the search text the click has set, leaves
\* page and company_choice as they are; both effects run eventually.
C24_ClickSelectsCompany ==
    /\ [][(pc = "click" => page' = "company" /\ company_choice' = pending_company_key)
          /\ (pc = "search" => page' = "company" /\ company_choice' = company_choice)]_vars
    /\ (pc = "click" ~> (pc = "ready" /\ page = "company"))

-----------------------------------------------------------------------------
(* The streak map of the tenure pass *)

\* The leavers of the transition the tenure pass takes next.
NextLeavers ==
    IF lt_idx >= 1 /\ lt_idx < Len(Labels)
    THEN lt_prev_set \ KeysIn(Labels[lt_idx + 1])
    ELSE {}

\* C25: once the tenure pass has processed a quarter, its streak map has
\* exactly the keys of that quarter's entities, the streak of each is the
\* number of consecutive quarters ending with that one in which it was
\* present, which lies between 1 and the number of quarters processed, and
\* every entity that leaves at the next transition has a streak of at least 1
\* recorded; so the tenures read at a transition are as many as its leavers.
C25_StreakMap ==
    /\ lt_idx >= 1 =>
        /\ DOMAIN lt_prev_streak = KeysIn(Labels[lt_idx])
        /\ DOMAIN lt_prev_streak = lt_prev_set
        /\ \A k \in DOMAIN lt_prev_streak :
            /\ lt_prev_streak[k] = RunLength(k, lt_idx)
            /\ 1 <= lt_prev_streak[k] /\ lt_prev_streak[k] <= lt_idx
    /\ \A k \in NextLeavers : k \in DOMAIN lt_prev_streak /\ lt_prev_streak[k] >= 1
    /\ lt_idx >= 2 => Cardinality(lt_tenures) = lt_records[lt_idx].n_leavers

\* Three quarters processed: one entity present in all three, another that
\* has just joined, and one of them leaves at the next transition.
C25_Witness ==
    /\ lt_idx = 3 /\ Len(Labels) = 4
    /\ \E k1, k2 \in DOMAIN lt_prev_streak :
        /\ lt_prev_streak[k1] = 3 /\ lt_prev_streak[k2] = 1
        /\ k1 \in NextLeavers

-----------------------------------------------------------------------------
(* Quarter labelling and the order of the dates *)

\* (fiscal year, fiscal quarter) of row a is not after that of row b.
FiscalLeq(a, b) ==
    \/ a.q_year < b.q_year
    \/ a.q_year = b.q_year /\ a.q_num <= b.q_num

\* The rows of the panel in fiscal year fy.
RowsOfFiscalYear(fy) == SelectSeq(DF, LAMBDA r : r.q_year = fy)

\* C30: of two rows of the panel, the one with the earlier or equal date has
\* the earlier or equal (fiscal year, fiscal quarter); and among the rows of
\* one fiscal year the label of the row with the latest date, which is what
\* _latest_quarter_label returns, is the label of that year's last quarter
\* present.
C30_LabelMonotone ==
    /\ \A i, j \in DOMAIN DF :
        DateLeq(DF[i].date, DF[j].date) => FiscalLeq(DF[i], DF[j])
    /\ \A fy \in {DF[i].q_year : i \in DOMAIN DF} :
        LET d == RowsOfFiscalYear(fy)
        IN  /\ \E i \in DOMAIN d : d[i].q_label = _latest_quarter_label(d)
            /\ \A i \in DOMAIN d :
                /\ QuarterOf(d[i].q_label) = <<d[i].q_year, d[i].q_num>>
                /\ d[i].q_num <= QuarterOf(_latest_quarter_label(d))[2]

\* December of one year and February of the next, both in quarter 1 of the
\* same fiscal year, and the pair December and November of one calendar year.
C30_Witness ==
    /\ pc = "ready" /\ Len(DF) = 2
    /\ \/ /\ DF[1].date.m = 2 /\ DF[2].date.m = 12 /\ DF[2].date.y < DF[1].date.y
          /\ DF[1].q_label = DF[2].q_label
       \/ /\ DF[1].date.m = 12 /\ DF[2].date.m = 11 /\ DF[1].date.y = DF[2].date.y
          /\ DF[1].q_year = DF[2].q_year + 1

-----------------------------------------------------------------------------
(* The "unique companies" KPI *)

\* C27: for the current selection the number vb_firms shows is the number of
\* distinct non-empty EntityKeys of the filtered snapshot, the number
\* _unique_company_count gives the distribution dialogs for that selection.
C27_KpiCountsEntityKeys ==
    kpi_firms # NaN =>
        /\ kpi_firms = Cardinality(SnapshotKeys)
        /\ kpi_firms = _unique_company_count(Snapshot)
        /\ dist_col # "" => kpi_firms = n_companies

-----------------------------------------------------------------------------
(* The quarter selector after a change of year *)

LabelsOfYear(y) == {r.q_label : r \in {x \in Range(DF) : x.q_year = y}}

\* The quarter selector has been brought up to date with a selected year.
QuartersUpToDate == pc = "ready" /\ ~quarters_invalidated /\ sel_year # NaN

\* C26: a change of the selected year makes _update_quarters run, which it
\* eventually does; it sets the choices of the quarter selector to exactly the
\* labels of the new year, in order, and selects the latest of them, so that
\* filtered() is the snapshot of that quarter, which has rows; and from then
\* on, whatever the user picks among the choices, no label of another fiscal
\* year is selected and the snapshot has rows.
C26_QuarterFollowsYear ==
    /\ [][sel_year' # sel_year => quarters_invalidated']_vars
    /\ (quarters_invalidated ~> QuartersUpToDate \/ (~quarters_invalidated /\ sel_year = NaN))
    /\ [][(_update_quarters /\ sel_year # NaN) =>
            /\ sel_quarter' = LatestLabelOfYear
            /\ Snapshot' # <<>>
            /\ \A i \in DOMAIN Snapshot' :
                Snapshot'[i].q_year = sel_year /\ Snapshot'[i].q_label = sel_quarter']_vars
    /\ [](QuartersUpToDate =>
            /\ Range(quarter_choices) = LabelsOfYear(sel_year)
            /\ \A i, j \in DOMAIN quarter_choices :
                i < j => QuarterOf(quarter_choices[i])[2] < QuarterOf(quarter_choices[j])[2]
            /\ sel_quarter \in LabelsOfYear(sel_year) \cup {""}
            /\ Snapshot # <<>>
            /\ \A i \in DOMAIN Snapshot : Snapshot[i].q_year = sel_year)
    /\ [][(QuartersUpToDate /\ sel_quarter' # sel_quarter) =>
            (SetQuarterFromChoices \/ quarters_invalidated')]_vars

\* The first fiscal year selected after the second, on a panel whose rows do
\* not come in date order: the selector holds the labels of quarters 3 and 4
\* of the first year and quarter 4 is selected.
C26_Witness ==
    /\ QuartersUpToDate
    /\ sel_year = FirstYear /\ Len(quarter_choices) = 2
    /\ sel_quarter = quarter_choices[2]
    /\ QuarterOf(sel_quarter) = <<FirstYear, 4>>
    /\ Len(DF) = 3 /\ DF[1].q_year = FirstYear + 1
    /\ DateLeq(DF[3].date, DF[2].date) /\ DF[3].date # DF[2].date

=============================================================================
